---- MODULE Spec2Model ----
(***************************************************************************)
(* Content moderation worker: the Azure moderation service                 *)
(* (src/services/azureModerationService.js), its rule engine, its score    *)
(* calculators and the classifier circuit breaker it fires its calls       *)
(* through.                                                                *)
(*                                                                         *)
(* Numbers: severities are the classifier's integers.  The boosted         *)
(* weapon/violence scores carry the 0.5 bonuses of the configuration, so   *)
(* every score is kept in HALF units (score * 2) and a threshold t is      *)
(* compared as 2 * t.  The mean of _calculateAIScore is kept as an exact   *)
(* fraction [num, den] in lowest terms.                                    *)
(***************************************************************************)
EXTENDS Integers, Sequences, FiniteSets, TLC

\* ------------------------------------------------------------------ bounds

MaxSeverity == 3
MaxLen == 2
MaxFrames == 3
MaxWindow == 3

\* _calculateAIScore is exercised on lists of up to MaxScoreLen severities
\* between -MaxNegative and MaxScoreSeverity.
MaxScoreLen == 3

MaxScoreSeverity == 4

MaxNegative == 1
MaxDuration == 45
MaxCount == 3

\* ------------------------------------------------- configuration (config.js)

ThresholdViolence == 1
ThresholdWeapons == 1
ThresholdHate == 1
ThresholdSelfHarm == 1
ThresholdSexual == 3
ThresholdChild == 1

\* rules.weaponBonus and rules.violenceBonus are 0.5: one half unit each.
WeaponBonusHalves == 1
ViolenceBonusHalves == 1

\* The severity the sexualWithChild rule hard-codes for Sexual.
SexualWithChildSeverity == 2

\* The severity from which a Sexual entry implies a violence score of 1.
SexualViolenceSeverity == 3

\* circuitBreaker.azure.errorThresholdPercentage
ErrorThresholdPercentage == 50

R2ErrorThresholdPercentage == 30

DefaultThresholds ==
  [violence |-> ThresholdViolence, weapons |-> ThresholdWeapons,
   hate |-> ThresholdHate, selfHarm |-> ThresholdSelfHarm,
   sexual |-> ThresholdSexual, child |-> ThresholdChild]

DefaultRules ==
  [childWithViolence |-> TRUE, childWithHate |-> TRUE, sexualWithChild |-> TRUE,
   weaponBonus |-> WeaponBonusHalves, violenceBonus |-> ViolenceBonusHalves]

\* Threshold configurations explored besides the shipped one.
ThresholdConfigs ==
  { DefaultThresholds,
    [violence |-> 2, weapons |-> 2, hate |-> 2, selfHarm |-> 2,
     sexual |-> 2, child |-> 2],
    [violence |-> 3, weapons |-> 2, hate |-> 1, selfHarm |-> 3,
     sexual |-> 1, child |-> 3] }

RuleConfigs ==
  { [childWithViolence |-> a, childWithHate |-> b, sexualWithChild |-> c,
     weaponBonus |-> WeaponBonusHalves, violenceBonus |-> ViolenceBonusHalves]
    : a \in BOOLEAN, b \in BOOLEAN, c \in BOOLEAN }

\* ------------------------------------------------------------- data model

CategoryNames == {"Child", "Violence", "Hate", "SelfHarm", "Sexual"}

Entries == [category : CategoryNames, severity : 0..MaxSeverity]

RECURSIVE ListsUpTo(_)
ListsUpTo(n) ==
  IF n = 0 THEN { <<>> }
  ELSE LET shorter == ListsUpTo(n - 1)
       IN shorter \cup { Append(l, e) : l \in { s \in shorter : Len(s) = n - 1 }, e \in Entries }

CategoryLists == ListsUpTo(MaxLen)

\* A reason is the rule that produced it and, for the two reasons whose text
\* embeds a score, that score (in half units); "null" is JavaScript's null.
Reason(rule, score) == [rule |-> rule, score |-> score]
NullReason == Reason("null", 0)

\* The request slots: two moderation requests can be in progress at once.
Requests == {"r1", "r2"}

VARIABLES
  thresholds,   \* this.thresholds
  rules,        \* this.rules
  breaker,      \* this.circuitBreaker: status, rolling window, probe in flight
  req,          \* per request: the moderateImage / moderateVideo invocation
  testInput,    \* argument of the last testModerationRules call
  testOutput,   \* what it returned
  ctl,          \* the controller's handler invocation
  storageBreaker,  \* storageService.circuitBreaker
  app,          \* the process: its configuration and how far startup got
  stamps        \* the last _calculateTimestamps call: arguments and result

vars == <<thresholds, rules, breaker, req, testInput, testOutput, ctl, storageBreaker, app, stamps>>

\* ------------------------------------------------------------ pure helpers

Max(a, b) == IF a >= b THEN a ELSE b

RECURSIVE Gcd(_, _)
Gcd(a, b) == IF b = 0 THEN a ELSE Gcd(b, a % b)

\* categories.some(c => c.category === name && c.severity >= t)
SomeAtLeast(categories, name, t) ==
  \E i \in 1..Len(categories) :
    categories[i].category = name /\ categories[i].severity >= t

\* Mutant of DetectLoop: a Sexual entry of severity >= 3 adds 1 to the violence
\* score instead of raising it to at least 1.
RECURSIVE DetectLoopSexualAdds(_, _, _)
DetectLoopSexualAdds(categories, weaponScore, violenceScore) ==
  IF categories = <<>> THEN [weaponScore |-> weaponScore, violenceScore |-> violenceScore]
  ELSE
    LET cat == Head(categories)
        v1 == IF cat.category = "Violence" THEN Max(violenceScore, cat.severity)
              ELSE violenceScore
        w1 == IF cat.category = "Hate" /\ cat.severity >= 1 THEN Max(weaponScore, cat.severity)
              ELSE weaponScore
        w2 == IF cat.category = "SelfHarm" /\ cat.severity >= 1 THEN Max(w1, cat.severity)
              ELSE w1
        v2 == IF cat.category = "Sexual" /\ cat.severity >= SexualViolenceSeverity
              THEN v1 + 1 ELSE v1
    IN DetectLoopSexualAdds(Tail(categories), w2, v2)

\* The loop of _detectWeaponsAndViolence, entry by entry, on raw severities.
RECURSIVE DetectLoop(_, _, _)
DetectLoop(categories, weaponScore, violenceScore) ==
  IF categories = <<>> THEN [weaponScore |-> weaponScore, violenceScore |-> violenceScore]
  ELSE
    LET cat == Head(categories)
        v1 == IF cat.category = "Violence" THEN Max(violenceScore, cat.severity)
              ELSE violenceScore
        w1 == IF cat.category = "Hate" /\ cat.severity >= 1 THEN Max(weaponScore, cat.severity)
              ELSE weaponScore
        w2 == IF cat.category = "SelfHarm" /\ cat.severity >= 1 THEN Max(w1, cat.severity)
              ELSE w1
        v2 == IF cat.category = "Sexual" /\ cat.severity >= SexualViolenceSeverity
              THEN Max(v1, 1) ELSE v1
    IN DetectLoop(Tail(categories), w2, v2)

\* Mutant of DetectWeaponsAndViolence: the violence score is returned without
\* its bonus.
DetectWeaponsAndViolenceRawViolence(categories, rl) ==
  LET raw == DetectLoop(categories, 0, 0)
  IN [weaponScore |->
        IF raw.weaponScore > 0 THEN 2 * raw.weaponScore + rl.weaponBonus ELSE 0,
      violenceScore |-> 2 * raw.violenceScore]

\* Mutant of DetectWeaponsAndViolence: the weapon bonus is added to a zero
\* score as well.
DetectWeaponsAndViolenceAlwaysBonus(categories, rl) ==
  LET raw == DetectLoop(categories, 0, 0)
  IN [weaponScore |-> 2 * raw.weaponScore + rl.weaponBonus,
      violenceScore |->
        IF raw.violenceScore > 0 THEN 2 * raw.violenceScore + rl.violenceBonus ELSE 0]

\* _detectWeaponsAndViolence: both scores in half units, bonus added when > 0.
DetectWeaponsAndViolence(categories, rl) ==
  LET raw == DetectLoop(categories, 0, 0)
  IN [weaponScore |->
        IF raw.weaponScore > 0 THEN 2 * raw.weaponScore + rl.weaponBonus ELSE 0,
      violenceScore |->
        IF raw.violenceScore > 0 THEN 2 * raw.violenceScore + rl.violenceBonus ELSE 0]

\* Mutant of BaselineRules: the Child rule compares with > instead of >=.
BaselineRulesChildStrict(categories, th, scores) ==
  << [condition |-> SomeAtLeast(categories, "Child", th.child + 1),
      reason |-> Reason("child", 0)],
     [condition |-> scores.violenceScore >= 2 * th.violence,
      reason |-> Reason("violence", scores.violenceScore)],
     [condition |-> scores.weaponScore >= 2 * th.weapons,
      reason |-> Reason("weapons", scores.weaponScore)],
     [condition |-> SomeAtLeast(categories, "Hate", th.hate),
      reason |-> Reason("hate", 0)],
     [condition |-> SomeAtLeast(categories, "SelfHarm", th.selfHarm),
      reason |-> Reason("selfHarm", 0)],
     [condition |-> SomeAtLeast(categories, "Sexual", th.sexual),
      reason |-> Reason("sexual", 0)] >>

\* Mutant of BaselineRules: the Sexual rule compares with the severity the
\* sexualWithChild rule hard-codes instead of thresholds.sexual.
BaselineRulesSexualHardCoded(categories, th, scores) ==
  << [condition |-> SomeAtLeast(categories, "Child", th.child),
      reason |-> Reason("child", 0)],
     [condition |-> scores.violenceScore >= 2 * th.violence,
      reason |-> Reason("violence", scores.violenceScore)],
     [condition |-> scores.weaponScore >= 2 * th.weapons,
      reason |-> Reason("weapons", scores.weaponScore)],
     [condition |-> SomeAtLeast(categories, "Hate", th.hate),
      reason |-> Reason("hate", 0)],
     [condition |-> SomeAtLeast(categories, "SelfHarm", th.selfHarm),
      reason |-> Reason("selfHarm", 0)],
     [condition |-> SomeAtLeast(categories, "Sexual", SexualWithChildSeverity),
      reason |-> Reason("sexual", 0)] >>

\* The six baseline rules, in the order of the array literal.
BaselineRules(categories, th, scores) ==
  << [condition |-> SomeAtLeast(categories, "Child", th.child),
      reason |-> Reason("child", 0)],
     [condition |-> scores.violenceScore >= 2 * th.violence,
      reason |-> Reason("violence", scores.violenceScore)],
     [condition |-> scores.weaponScore >= 2 * th.weapons,
      reason |-> Reason("weapons", scores.weaponScore)],
     [condition |-> SomeAtLeast(categories, "Hate", th.hate),
      reason |-> Reason("hate", 0)],
     [condition |-> SomeAtLeast(categories, "SelfHarm", th.selfHarm),
      reason |-> Reason("selfHarm", 0)],
     [condition |-> SomeAtLeast(categories, "Sexual", th.sexual),
      reason |-> Reason("sexual", 0)] >>

\* Mutant of CompoundRules: the sexualWithChild rule lacks its Child condition.
CompoundRulesSexualAlone(categories, th, rl, scores) ==
  (IF rl.childWithViolence
   THEN << [condition |-> SomeAtLeast(categories, "Child", th.child)
                          /\ (scores.violenceScore >= 2 * th.violence
                              \/ scores.weaponScore >= 2 * th.weapons),
            reason |-> Reason("childWithViolence", 0)] >>
   ELSE << >>)
  \o
  (IF rl.childWithHate
   THEN << [condition |-> SomeAtLeast(categories, "Child", th.child)
                          /\ SomeAtLeast(categories, "Hate", th.hate),
            reason |-> Reason("childWithHate", 0)] >>
   ELSE << >>)
  \o
  (IF rl.sexualWithChild
   THEN << [condition |-> SomeAtLeast(categories, "Sexual", SexualWithChildSeverity),
            reason |-> Reason("sexualWithChild", 0)] >>
   ELSE << >>)

\* The compound rules pushed after them, each when its toggle is set.
CompoundRules(categories, th, rl, scores) ==
  (IF rl.childWithViolence
   THEN << [condition |-> SomeAtLeast(categories, "Child", th.child)
                          /\ (scores.violenceScore >= 2 * th.violence
                              \/ scores.weaponScore >= 2 * th.weapons),
            reason |-> Reason("childWithViolence", 0)] >>
   ELSE << >>)
  \o
  (IF rl.childWithHate
   THEN << [condition |-> SomeAtLeast(categories, "Child", th.child)
                          /\ SomeAtLeast(categories, "Hate", th.hate),
            reason |-> Reason("childWithHate", 0)] >>
   ELSE << >>)
  \o
  (IF rl.sexualWithChild
   THEN << [condition |-> SomeAtLeast(categories, "Sexual", SexualWithChildSeverity)
                          /\ SomeAtLeast(categories, "Child", th.child),
            reason |-> Reason("sexualWithChild", 0)] >>
   ELSE << >>)

\* Mutant of RuleList: the compound rules are scanned before the baseline rules.
RuleListCompoundFirst(categories, th, rl) ==
  LET scores == DetectWeaponsAndViolence(categories, rl)
  IN CompoundRules(categories, th, rl, scores) \o BaselineRules(categories, th, scores)

\* The array the scan runs over: the baseline rules, then the pushed ones.
RuleList(categories, th, rl) ==
  LET scores == DetectWeaponsAndViolence(categories, rl)
  IN BaselineRules(categories, th, scores) \o CompoundRules(categories, th, rl, scores)

\* for (const rule of rules) if (rule.condition()) return {rejected: true, ...}
RECURSIVE FirstMatch(_)
FirstMatch(rs) ==
  IF rs = <<>> THEN [rejected |-> FALSE, reason |-> NullReason]
  ELSE IF Head(rs).condition THEN [rejected |-> TRUE, reason |-> Head(rs).reason]
  ELSE FirstMatch(Tail(rs))

ApplyModerationRules(categories, th, rl) == FirstMatch(RuleList(categories, th, rl))

\* A severity as _calculateAIScore sees it: a value of type number, finite or
\* NaN, or a value of any other type (string, undefined, null, object).
NumberValue(v) == [type |-> "number", nan |-> FALSE, value |-> v]

NaNValue == [type |-> "number", nan |-> TRUE, value |-> 0]

OtherValue == [type |-> "other", nan |-> FALSE, value |-> 0]

\* Mutant of Plus: the severity is added without the typeof test, so a value
\* of another type turns the sum into NaN.
PlusUnguarded(acc, severity) ==
  IF acc.nan \/ severity.nan \/ severity.type # "number" THEN NaNValue
  ELSE NumberValue(acc.value + severity.value)

\* acc + (typeof c.severity === 'number' ? c.severity : 0)
Plus(acc, severity) ==
  IF severity.type # "number" THEN acc
  ELSE IF acc.nan \/ severity.nan THEN NaNValue
  ELSE NumberValue(acc.value + severity.value)

\* categories.reduce((acc, c) => acc + ..., 0)
RECURSIVE SumSeverity(_, _)
SumSeverity(categories, acc) ==
  IF categories = <<>> THEN acc
  ELSE SumSeverity(Tail(categories), Plus(acc, Head(categories).severity))

\* A score is the exact fraction num / den in lowest terms; den = 0 is NaN.
ZeroScore == [num |-> 0, den |-> 1]

NaNScore == [num |-> 0, den |-> 0]

\* sum / categories.length
Divide(sum, length) ==
  IF sum.nan \/ length = 0 THEN NaNScore
  ELSE LET g == Gcd(length, IF sum.value < 0 THEN -sum.value ELSE sum.value)
       IN [num |-> sum.value \div g, den |-> length \div g]

\* _calculateAIScore on a list whose severities are values of any type.
AIScore(categories) ==
  IF Len(categories) = 0 THEN ZeroScore
  ELSE LET sum == SumSeverity(categories, NumberValue(0))
           mean == Divide(sum, Len(categories))
       IN IF mean # NaNScore THEN mean ELSE ZeroScore

\* _calculateAIScore on a list of well-formed entries: every severity a number.
CalculateAIScore(categories) ==
  AIScore([k \in DOMAIN categories |->
             [severity |-> NumberValue(categories[k].severity)]])

VerdictOf(outcome) == IF outcome.rejected THEN "rejected" ELSE "accepted"

\* ------------------------------------------------- testModerationRules

NoTest == [called |-> FALSE]

\* Mutant of TestModerationRules: the rules are evaluated with the shipped
\* thresholds instead of the service's.
TestModerationRulesShippedThresholds(testCategories) ==
  /\ LET scores == DetectWeaponsAndViolence(testCategories, rules)
         moderationResult == ApplyModerationRules(testCategories, DefaultThresholds, rules)
     IN testOutput' =
          [called |-> TRUE,
           weaponScore |-> scores.weaponScore,
           violenceScore |-> scores.violenceScore,
           ai_score |-> CalculateAIScore(testCategories),
           verdict |-> VerdictOf(moderationResult),
           rejectionReason |-> moderationResult.reason]
  /\ testInput' = testCategories
  /\ UNCHANGED <<thresholds, rules, breaker, req, ctl, storageBreaker, app, stamps>>

\* testModerationRules(testCategories)
TestModerationRules(testCategories) ==
  /\ LET scores == DetectWeaponsAndViolence(testCategories, rules)
         moderationResult == ApplyModerationRules(testCategories, thresholds, rules)
     IN testOutput' =
          [called |-> TRUE,
           weaponScore |-> scores.weaponScore,
           violenceScore |-> scores.violenceScore,
           ai_score |-> CalculateAIScore(testCategories),
           verdict |-> VerdictOf(moderationResult),
           rejectionReason |-> moderationResult.reason]
  /\ testInput' = testCategories
  /\ UNCHANGED <<thresholds, rules, breaker, req, ctl, storageBreaker, app, stamps>>

\* ------------------------------------------------ verdicts of the service

\* An accepted video verdict has no rejectionReason property at all.
UndefinedReason == Reason("undefined", 0)
UnavailableReason == Reason("unavailable", 0)
VideoFramesReason == Reason("videoFrames", 0)

NoVerdict == [verdict |-> "none", categories |-> <<>>,
              rejectionReason |-> UndefinedReason, ai_score |-> [num |-> 0, den |-> 1]]

\* _fallbackModeration
FallbackModeration ==
  [verdict |-> "rejected", rejectionReason |-> UnavailableReason,
   categories |-> <<>>, ai_score |-> [num |-> 0, den |-> 1]]

\* What the classifier can answer to one POST: two well-formed analyses, one
\* that no rule rejects and one that the Child rule rejects, and the failures.  "ok" carries categoriesAnalysis;
\* "noCategories" is a 200 whose body has no categoriesAnalysis; "notIterable" a
\* 200 whose categoriesAnalysis is a truthy non-list; "status" a status other
\* than 200 below 500; "transport" a rejected axios promise (network error,
\* status >= 500, axios timeout).
ResponseBodies ==
  {
    << [category |-> "Sexual", severity |-> 2], [category |-> "Violence", severity |-> 0] >>,
    << [category |-> "Child", severity |-> 1], [category |-> "Hate", severity |-> 1] >> }

ClassifierResponses ==
  { [kind |-> "ok", body |-> b] : b \in ResponseBodies }
  \cup { [kind |-> k, body |-> <<>>] : k \in {"noCategories", "notIterable", "status", "transport"} }

\* _callAzureAPI from the response on: thrown is TRUE when it throws.
CallAzureAPI(response, th, rl) ==
  IF response.kind \in {"status", "transport", "notIterable"}
  THEN [thrown |-> TRUE, result |-> NoVerdict]
  ELSE LET categories == IF response.kind = "ok" THEN response.body ELSE <<>>
           moderationResult == ApplyModerationRules(categories, th, rl)
       IN [thrown |-> FALSE,
           result |-> [verdict |-> VerdictOf(moderationResult),
                       categories |-> categories,
                       rejectionReason |-> moderationResult.reason,
                       ai_score |-> CalculateAIScore(categories)]]

\* Mutant of FlatCategories: the frames' lists are concatenated last frame
\* first.
RECURSIVE FlatCategoriesReversed(_)
FlatCategoriesReversed(results) ==
  IF results = <<>> THEN <<>>
  ELSE FlatCategoriesReversed(Tail(results)) \o Head(results).categories

\* results.flatMap(r => r.categories || [])
RECURSIVE FlatCategories(_)
FlatCategories(results) ==
  IF results = <<>> THEN <<>>
  ELSE Head(results).categories \o FlatCategories(Tail(results))

\* results.find(r => r.verdict === 'rejected')
RECURSIVE FindRejected(_)
FindRejected(results) ==
  IF Head(results).verdict = "rejected" THEN Head(results)
  ELSE FindRejected(Tail(results))

\* Mutant of CalculateVideoVerdict: the rejected verdict carries no reason.
CalculateVideoVerdictNoReason(results) ==
  LET allCategories == FlatCategories(results)
      anyRejected == \E k \in 1..Len(results) : results[k].verdict = "rejected"
  IN [verdict |-> IF anyRejected THEN "rejected" ELSE "accepted",
      rejectionReason |-> UndefinedReason,
      categories |-> allCategories,
      ai_score |-> CalculateAIScore(allCategories)]

\* Mutant of CalculateVideoVerdict: a rejected video always carries the default
\* reason instead of the rejected frame's.
CalculateVideoVerdictDefaultReason(results) ==
  LET allCategories == FlatCategories(results)
      anyRejected == \E k \in 1..Len(results) : results[k].verdict = "rejected"
  IN [verdict |-> IF anyRejected THEN "rejected" ELSE "accepted",
      rejectionReason |-> IF anyRejected THEN VideoFramesReason ELSE UndefinedReason,
      categories |-> allCategories,
      ai_score |-> CalculateAIScore(allCategories)]

\* _calculateVideoVerdict
CalculateVideoVerdict(results) ==
  LET allCategories == FlatCategories(results)
      anyRejected == \E k \in 1..Len(results) : results[k].verdict = "rejected"
  IN IF anyRejected
     THEN LET rejectedResult == FindRejected(results)
          IN [verdict |-> "rejected",
              rejectionReason |->
                IF rejectedResult.rejectionReason \in {NullReason, UndefinedReason}
                THEN VideoFramesReason ELSE rejectedResult.rejectionReason,
              categories |-> allCategories,
              ai_score |-> CalculateAIScore(allCategories)]
     ELSE [verdict |-> "accepted", rejectionReason |-> UndefinedReason,
           categories |-> allCategories,
           ai_score |-> CalculateAIScore(allCategories)]

\* ------------------------------------------------------- circuit breaker

ClosedBreaker == [status |-> "closed", calls |-> 0, failures |-> 0, probing |-> FALSE]

\* The rolling failure percentage has reached errorThresholdPercentage.
ThresholdReached(b) ==
  b.calls > 0 /\ b.failures * 100 >= ErrorThresholdPercentage * b.calls

\* Mutant of BreakerAdmits: half-open admits every call.
BreakerAdmitsAllProbes(b) == b.status \in {"closed", "halfOpen"}

\* Whether execute() invokes the operation: closed, or half-open with no
\* probe in flight yet.
BreakerAdmits(b) ==
  \/ b.status = "closed"
  \/ b.status = "halfOpen" /\ ~b.probing

\* The breaker once the operation is invoked: in half-open the call is the probe.
BreakerInvoked(b) ==
  IF b.status = "halfOpen" THEN [b EXCEPT !.probing = TRUE] ELSE b

\* The windows one more outcome can leave: when the model's window is full the
\* oldest outcome, a success or a failure, has left it.
WindowsAfter(b, failed) ==
  LET Add(w) == [w EXCEPT !.calls = @ + 1, !.failures = @ + (IF failed THEN 1 ELSE 0)]
      evicted == IF b.calls < MaxWindow THEN { b }
                 ELSE { w \in { [b EXCEPT !.calls = @ - 1],
                                [b EXCEPT !.calls = @ - 1, !.failures = @ - 1] } :
                        w.failures >= 0 /\ w.failures <= w.calls }
  IN { Add(w) : w \in evicted }

\* The breaker after the outcome of an invoked call is known: the probe closes
\* or reopens it, a failure while closed opens it at the threshold.
BreakerAfter(b, failed, wasProbe) ==
  IF wasProbe
  THEN IF failed
       THEN { [w EXCEPT !.status = "open", !.probing = FALSE] : w \in WindowsAfter(b, failed) }
       ELSE { ClosedBreaker }
  ELSE { IF w.status = "closed" /\ failed /\ ThresholdReached(w)
         THEN [w EXCEPT !.status = "open"] ELSE w : w \in WindowsAfter(b, failed) }

\* ------------------------------------------- moderateImage / moderateVideo

\* outcome is how the request's latest call through the breaker ended: the
\* kind of the classifier's response, "timeout" when the breaker's timeout
\* passed first, and the breaker's status ("open", "halfOpen") when the
\* breaker rejected the call without invoking the operation.
IdleRequest ==
  [kind |-> "none", pc |-> "idle", n |-> 0, i |-> 0, results |-> <<>>,
   ret |-> NoVerdict, calls |-> 0, probe |-> FALSE, outcome |-> "none"]

\* Mutant of Caught: the catch block rethrows instead of falling back.
CaughtRethrows(q) ==
  [q EXCEPT !.pc = "thrown", !.ret = NoVerdict, !.probe = FALSE]

\* Mutant of Caught: the catch block sends the failed call again.
CaughtRetries(q) ==
  [q EXCEPT !.pc = "awaiting", !.calls = @ + 1]

\* Mutant of Caught: the fallback accepts.
CaughtAccepts(q) ==
  [q EXCEPT !.pc = "done", !.probe = FALSE,
            !.ret = [FallbackModeration EXCEPT !.verdict = "accepted",
                                               !.rejectionReason = NullReason]]

\* The catch block of moderateImage and moderateVideo.
Caught(q) ==
  [q EXCEPT !.pc = "done", !.ret = FallbackModeration, !.probe = FALSE,
            !.results = <<>>]

\* Mutant of Fire: a call the breaker refuses is passed over, and the request
\* ends accepted.
FireRefusedAccepts(q, b) ==
  IF BreakerAdmits(b)
  THEN [q EXCEPT !.pc = "awaiting", !.calls = @ + 1, !.probe = (b.status = "halfOpen")]
  ELSE [q EXCEPT !.pc = "done", !.outcome = b.status, !.results = <<>>, !.probe = FALSE,
                 !.ret = [verdict |-> "accepted", rejectionReason |-> UndefinedReason,
                          categories |-> <<>>, ai_score |-> ZeroScore]]

\* Mutant of Fire: the operation is invoked whatever the breaker's state.
FireUnguarded(q, b) ==
  [q EXCEPT !.pc = "awaiting", !.calls = @ + 1, !.probe = (b.status = "halfOpen")]

\* circuitBreaker.fire(...) for request record q: the request awaits the
\* classifier when the breaker invokes the operation, and otherwise lands in
\* its catch block at once with the breaker's rejection.
Fire(q, b) ==
  IF BreakerAdmits(b)
  THEN [q EXCEPT !.pc = "awaiting", !.calls = @ + 1, !.probe = (b.status = "halfOpen")]
  ELSE Caught([q EXCEPT !.outcome = b.status])

\* Mutant of ModerateImage: the call lowers the service's sexual threshold.
ModerateImageLowersThreshold(r) ==
  /\ req[r].pc = "idle"
  /\ LET next == Fire([IdleRequest EXCEPT !.kind = "image", !.n = 1, !.i = 1], breaker)
     IN /\ req' = [req EXCEPT ![r] = next]
        /\ breaker' = IF next.pc = "awaiting" THEN BreakerInvoked(breaker) ELSE breaker
  /\ thresholds' = [thresholds EXCEPT !.sexual = SexualWithChildSeverity]
  /\ UNCHANGED <<rules, testInput, testOutput, ctl, storageBreaker, app, stamps>>

\* moderateImage(buffer) up to its await.
ModerateImage(r) ==
  /\ req[r].pc = "idle"
  /\ LET next == Fire([IdleRequest EXCEPT !.kind = "image", !.n = 1, !.i = 1], breaker)
     IN /\ req' = [req EXCEPT ![r] = next]
        /\ breaker' = IF next.pc = "awaiting" THEN BreakerInvoked(breaker) ELSE breaker
  /\ UNCHANGED <<thresholds, rules, testInput, testOutput, ctl, storageBreaker, app, stamps>>

\* moderateVideo(thumbnails) up to its first await; with no thumbnail the loop
\* body never runs and the verdict is computed over no result.
ModerateVideo(r, n) ==
  /\ req[r].pc = "idle"
  /\ LET q == [IdleRequest EXCEPT !.kind = "video", !.n = n]
         next == IF n = 0
                 THEN [q EXCEPT !.pc = "done", !.ret = CalculateVideoVerdict(<<>>)]
                 ELSE Fire([q EXCEPT !.i = 1], breaker)
     IN /\ req' = [req EXCEPT ![r] = next]
        /\ breaker' = IF next.pc = "awaiting" THEN BreakerInvoked(breaker) ELSE breaker
  /\ UNCHANGED <<thresholds, rules, testInput, testOutput, ctl, storageBreaker, app, stamps>>

\* Mutant of Continue: the loop of moderateVideo has no break.
ContinueNoBreak(q, call, b) ==
  IF call.thrown THEN Caught(q)
  ELSE IF q.kind = "image"
  THEN [q EXCEPT !.pc = "done", !.ret = call.result, !.probe = FALSE]
  ELSE LET results == Append(q.results, call.result)
       IN IF q.i = q.n
          THEN [q EXCEPT !.pc = "done", !.ret = CalculateVideoVerdict(results),
                         !.results = results, !.probe = FALSE]
          ELSE Fire([q EXCEPT !.results = results, !.i = @ + 1, !.probe = FALSE], b)

\* Mutant of Continue: a frame whose call threw is passed over and the loop
\* goes on with the next frame.
ContinueSkipsFailedFrame(q, call, b) ==
  IF call.thrown
  THEN IF q.kind = "video" /\ q.i < q.n
       THEN Fire([q EXCEPT !.i = @ + 1, !.probe = FALSE], b)
       ELSE Caught(q)
  ELSE IF q.kind = "image"
  THEN [q EXCEPT !.pc = "done", !.ret = call.result, !.probe = FALSE]
  ELSE LET results == Append(q.results, call.result)
       IN IF call.result.verdict = "rejected" \/ q.i = q.n
          THEN [q EXCEPT !.pc = "done", !.ret = CalculateVideoVerdict(results),
                         !.results = <<>>, !.probe = FALSE]
          ELSE Fire([q EXCEPT !.results = results, !.i = @ + 1, !.probe = FALSE], b)

\* The continuation of a request after its awaited call settled with `call`
\* (the outcome of _callAzureAPI), the breaker being b by then: the return of
\* moderateImage, one turn of the loop of moderateVideo, or the catch block.
Continue(q, call, b) ==
  IF call.thrown THEN Caught(q)
  ELSE IF q.kind = "image"
  THEN [q EXCEPT !.pc = "done", !.ret = call.result, !.probe = FALSE]
  ELSE LET results == Append(q.results, call.result)
       IN IF call.result.verdict = "rejected" \/ q.i = q.n
          THEN [q EXCEPT !.pc = "done", !.ret = CalculateVideoVerdict(results),
                         !.results = <<>>, !.probe = FALSE]
          ELSE Fire([q EXCEPT !.results = results, !.i = @ + 1, !.probe = FALSE], b)

\* The classifier answers the call request r awaits.
ClassifierResponds(r, response) ==
  /\ req[r].pc = "awaiting"
  /\ LET call == CallAzureAPI(response, thresholds, rules)
         q == [req[r] EXCEPT !.outcome = response.kind]
     IN \E b \in BreakerAfter(breaker, call.thrown, req[r].probe) :
          LET next == Continue(q, call, b)
          IN /\ req' = [req EXCEPT ![r] = next]
             /\ breaker' = IF next.pc = "awaiting" THEN BreakerInvoked(b) ELSE b
  /\ UNCHANGED <<thresholds, rules, testInput, testOutput, ctl, storageBreaker, app, stamps>>

\* The breaker's timeout passes before the call request r awaits has settled.
BreakerTimeout(r) ==
  /\ req[r].pc = "awaiting"
  /\ breaker' \in BreakerAfter(breaker, TRUE, req[r].probe)
  /\ req' = [req EXCEPT ![r] = Caught([req[r] EXCEPT !.outcome = "timeout"])]
  /\ UNCHANGED <<thresholds, rules, testInput, testOutput, ctl, storageBreaker, app, stamps>>

\* resetTimeout has passed since the breaker opened.
ResetTimeoutElapses ==
  /\ breaker.status = "open"
  /\ breaker' = [breaker EXCEPT !.status = "halfOpen", !.probing = FALSE]
  /\ UNCHANGED <<thresholds, rules, req, testInput, testOutput, ctl, storageBreaker, app, stamps>>

\* The oldest outcome leaves the rolling window.
WindowExpires ==
  /\ breaker.calls > 0
  /\ \E w \in { [breaker EXCEPT !.calls = @ - 1],
                [breaker EXCEPT !.calls = @ - 1, !.failures = @ - 1] } :
       /\ w.failures >= 0 /\ w.failures <= w.calls
       /\ breaker' = w
  /\ UNCHANGED <<thresholds, rules, req, testInput, testOutput, ctl, storageBreaker, app, stamps>>

\* The caller has the verdict; the slot serves the next request.
Returned(r) ==
  /\ req[r].pc \in {"done", "thrown"}
  /\ req' = [req EXCEPT ![r] = IdleRequest]
  /\ UNCHANGED <<thresholds, rules, breaker, testInput, testOutput, ctl, storageBreaker, app, stamps>>

\* ------------------------------------------------ storage circuit breaker

\* The rolling failure percentage of the storage breaker has reached its
\* errorThresholdPercentage.
StorageThresholdReached(b) ==
  b.calls > 0 /\ b.failures * 100 >= R2ErrorThresholdPercentage * b.calls

\* The storage breaker after the outcome of an invoked storage call.
StorageBreakerAfter(b, failed, wasProbe) ==
  IF wasProbe
  THEN IF failed
       THEN { [w EXCEPT !.status = "open", !.probing = FALSE] : w \in WindowsAfter(b, failed) }
       ELSE { ClosedBreaker }
  ELSE { IF w.status = "closed" /\ failed /\ StorageThresholdReached(w)
         THEN [w EXCEPT !.status = "open"] ELSE w : w \in WindowsAfter(b, failed) }

\* ------------------------------------------------------------- controller

Methods == {"moderateImage", "moderateVideo", "moderateImageFromR2", "moderateVideoFromR2"}

FromR2(method) == method \in {"moderateImageFromR2", "moderateVideoFromR2"}

ForImage(method) == method \in {"moderateImage", "moderateImageFromR2"}

\* What validateFile finds in the bytes: an allowed image type, an allowed
\* video type, or anything for which it throws (too large, undetermined, not
\* allowed).
Contents == {"image", "video", "unknown"}

\* One handler invocation.  source: req.file (direct) or r2Key (from R2) is
\* present; creatorId and type: the body fields are present; frames: the
\* thumbnails generateVideoThumbnails yields; verdict and calls: what the
\* service returned and how many classifier invocations it made; uploads: the
\* uploadFile calls made; left: the uploads still to start; pending and probe:
\* the storage calls in flight and whether one is the half-open probe;
\* response: the error thrown to the error handler, or the verdict of the
\* JSON answer; disk: how the local disk and ffmpeg behave for this request;
\* temp: the temporary video file; tempDeletes: the deleteTempFile calls made;
\* deleteCalls: the deleteFile(r2Key) calls made; original: the object r2Key
\* is in storage; stored: the uploads that succeeded.
IdleController ==
  [method |-> "none", pc |-> "idle", source |-> FALSE, creatorId |-> FALSE,
   type |-> FALSE, content |-> "unknown", frames |-> 0, verdict |-> "none",
   calls |-> 0, uploads |-> 0, left |-> 0, pending |-> 0, probe |-> FALSE,
   response |-> "none", disk |-> "ok", temp |-> "none", tempDeletes |-> 0,
   deleteCalls |-> 0, original |-> FALSE, stored |-> 0]

\* What the local disk and ffmpeg do for a video request: nothing fails,
\* saveTempFile's writeFile fails, generateVideoThumbnails fails, or
\* deleteTempFile's unlink fails.
Disks == {"ok", "saveFails", "thumbnailsFail", "unlinkFails"}

\* fileService.deleteTempFile: unlink, any error swallowed.
DeleteTempFile(c) ==
  [c EXCEPT !.tempDeletes = @ + 1,
            !.temp = IF c.disk = "unlinkFails" THEN "left" ELSE "deleted"]

\* Mutant of Respond: deleteTempFile sits at the end of the try block, not
\* in a finally, so a thrown error skips it.
RespondLeavesTempOnError(c, response) ==
  LET d == IF c.temp = "saved" /\ response # "Error" THEN DeleteTempFile(c) ELSE c
  IN [d EXCEPT !.pc = "responded", !.response = response, !.left = 0]

\* res.json(...) or throw: the handler has answered; when it leaves the try
\* block of a video handler, the finally runs deleteTempFile.
Respond(c, response) ==
  LET d == IF c.temp = "saved" THEN DeleteTempFile(c) ELSE c
  IN [d EXCEPT !.pc = "responded", !.response = response, !.left = 0]

\* The checks on req.file / req.body at the top of each handler.
MissingInput(c) ==
  CASE c.method \in {"moderateImage", "moderateVideo"} -> ~c.source \/ ~c.creatorId
    [] c.method = "moderateImageFromR2" -> ~c.source \/ ~c.type
    [] c.method = "moderateVideoFromR2" -> ~c.source \/ ~c.creatorId

\* Mutant of Validated: the isImage / isVideo test is missing.
ValidatedAnyKind(c) ==
  IF c.content = "unknown" THEN Respond(c, "Error")
  ELSE [c EXCEPT !.pc = "moderating"]

\* A video handler before it calls the service: saveTempFile, then, inside the
\* try block, generateVideoThumbnails.
Prepared(c) ==
  IF ForImage(c.method) THEN [c EXCEPT !.pc = "moderating"]
  ELSE IF c.disk = "saveFails" THEN Respond(c, "Error")
  ELSE IF c.disk = "thumbnailsFail" THEN Respond([c EXCEPT !.temp = "saved"], "Error")
  ELSE [c EXCEPT !.temp = "saved", !.pc = "moderating"]

\* validateFile and the isImage / isVideo test that follows it.
Validated(c) ==
  IF c.content = "unknown" THEN Respond(c, "Error")
  ELSE IF (ForImage(c.method) /\ c.content # "image")
          \/ (~ForImage(c.method) /\ c.content # "video")
  THEN Respond(c, "InvalidFileTypeError")
  ELSE Prepared(c)

\* Mutant of StorageFire: deleteFile lets the breaker's refusal through, as
\* uploadFile and downloadFile do.
StorageFireDeleteThrows(c, b, operation) ==
  LET called == IF operation = "deleting" THEN [c EXCEPT !.deleteCalls = @ + 1] ELSE c
  IN IF BreakerAdmits(b)
     THEN [c |-> [called EXCEPT !.pc = operation, !.pending = @ + 1,
                                !.probe = @ \/ (b.status = "halfOpen")],
           b |-> BreakerInvoked(b)]
     ELSE [c |-> Respond(called, "Error"), b |-> b]

\* storageService.circuitBreaker.fire for handler record c with the storage
\* breaker b: the pair of the handler and the breaker afterwards.  A refused
\* upload or download throws; a refused delete is swallowed by deleteFile.
StorageFire(c, b, operation) ==
  LET called == IF operation = "deleting" THEN [c EXCEPT !.deleteCalls = @ + 1] ELSE c
  IN IF BreakerAdmits(b)
     THEN [c |-> [called EXCEPT !.pc = operation, !.pending = @ + 1,
                                !.probe = @ \/ (b.status = "halfOpen")],
           b |-> BreakerInvoked(b)]
     ELSE [c |-> IF operation = "deleting" THEN Respond(called, c.verdict)
                 ELSE Respond(called, "Error"),
           b |-> b]

\* The uploadFile calls of an accepted request: two at once for an image
\* (Promise.all), the video itself for a direct video, the thumbnails one
\* after the other for a video from R2.
UploadsAtOnce(method) == IF ForImage(method) THEN 2 ELSE 1

\* count uploadFile calls started in the same turn, each through the storage
\* breaker; a refused one makes the handler throw, the others stay in flight.
RECURSIVE StartUploads(_, _, _)
StartUploads(c, b, count) ==
  IF count = 0 THEN [c |-> c, b |-> b]
  ELSE LET fired == StorageFire([c EXCEPT !.uploads = @ + 1], b, "uploading")
       IN IF fired.c.pc = "responded" /\ count > 1
          THEN LET rest == StartUploads([fired.c EXCEPT !.pc = "uploading"], fired.b, count - 1)
               IN [c |-> Respond(rest.c, "Error"), b |-> rest.b]
          ELSE StartUploads(fired.c, fired.b, count - 1)

\* Mutant of Store: the original is deleted first.
StoreDeletesOriginal(c, b, thumbnailOk) == StorageFire(c, b, "deleting")

\* The handler on an accepted verdict: the image's thumbnail is generated, then
\* the uploads start.
Store(c, b, thumbnailOk) ==
  IF ForImage(c.method) /\ ~thumbnailOk THEN [c |-> Respond(c, "Error"), b |-> b]
  ELSE IF c.method = "moderateVideoFromR2"
  THEN IF c.frames = 0 THEN [c |-> Respond(c, "accepted"), b |-> b]
       ELSE StartUploads([c EXCEPT !.left = c.frames - 1], b, 1)
  ELSE StartUploads(c, b, UploadsAtOnce(c.method))

\* Mutant of AfterModeration: the media is stored before the verdict is looked
\* at.
AfterModerationStoresFirst(c, b, thumbnailOk) == Store(c, b, thumbnailOk)

\* Mutant of AfterModeration: a rejection made without any classifier
\* invocation leaves the original where it is.
AfterModerationKeepsOnFallback(c, b, thumbnailOk) ==
  IF c.verdict = "rejected"
  THEN IF FromR2(c.method) /\ c.calls > 0 THEN StorageFire(c, b, "deleting")
       ELSE [c |-> Respond(c, "rejected"), b |-> b]
  ELSE Store(c, b, thumbnailOk)

\* The handler once the service has returned its verdict: a rejected verdict
\* is answered at once (after deleting the original when it came from R2),
\* any other one is stored.
AfterModeration(c, b, thumbnailOk) ==
  IF c.verdict = "rejected"
  THEN IF FromR2(c.method) THEN StorageFire(c, b, "deleting")
       ELSE [c |-> Respond(c, "rejected"), b |-> b]
  ELSE Store(c, b, thumbnailOk)

\* What a settled storage call did to the stored objects: a download that
\* succeeded read the original, a delete that succeeded removed it, an
\* upload that succeeded stored its object (also when the handler has
\* already thrown for the other upload of a Promise.all).
StorageOutcome(c, failed) ==
  IF failed THEN c
  ELSE CASE c.pc = "downloading" -> [c EXCEPT !.original = TRUE]
         [] c.pc = "deleting" -> [c EXCEPT !.original = FALSE]
         [] OTHER -> [c EXCEPT !.stored = @ + 1]

\* Mutant of StorageSettled: Promise.all is a Promise.race, the first upload
\* to succeed lets the handler go on.
StorageSettledFirstUpload(c, b, failed) ==
  CASE c.pc = "downloading" ->
         [c |-> IF failed THEN Respond(c, "Error") ELSE Validated(c), b |-> b]
    [] c.pc = "uploading" ->
         IF failed THEN [c |-> Respond(c, "Error"), b |-> b]
         ELSE IF c.left > 0 THEN StartUploads([c EXCEPT !.left = @ - 1], b, 1)
         ELSE IF c.method = "moderateImageFromR2" THEN StorageFire(c, b, "deleting")
         ELSE [c |-> Respond(c, "accepted"), b |-> b]
    [] c.pc = "deleting" -> [c |-> Respond(c, c.verdict), b |-> b]
    [] OTHER -> [c |-> c, b |-> b]

\* The handler when a storage call in flight settles, b being the storage
\* breaker by then.
StorageSettled(c, b, failed) ==
  CASE c.pc = "downloading" ->
         [c |-> IF failed THEN Respond(c, "Error") ELSE Validated(c), b |-> b]
    [] c.pc = "uploading" ->
         IF failed THEN [c |-> Respond(c, "Error"), b |-> b]
         ELSE IF c.pending > 0 THEN [c |-> c, b |-> b]
         ELSE IF c.left > 0 THEN StartUploads([c EXCEPT !.left = @ - 1], b, 1)
         ELSE IF c.method = "moderateImageFromR2" THEN StorageFire(c, b, "deleting")
         ELSE [c |-> Respond(c, "accepted"), b |-> b]
    [] c.pc = "deleting" -> [c |-> Respond(c, c.verdict), b |-> b]
    [] OTHER -> [c |-> c, b |-> b]

\* A handler is called with a request: the process is listening.
ControllerRequest(method, source, creatorId, type, content, frames, disk) ==
  /\ app.phase = "listening"
  /\ ctl.pc = "idle"
  /\ LET c == [IdleController EXCEPT !.method = method, !.source = source,
                 !.creatorId = creatorId, !.type = type, !.content = content,
                 !.frames = frames, !.disk = disk]
         next == IF MissingInput(c)
                 THEN [c |-> Respond(c, "ValidationError"), b |-> storageBreaker]
                 ELSE IF FromR2(method) THEN StorageFire(c, storageBreaker, "downloading")
                 ELSE [c |-> Validated(c), b |-> storageBreaker]
     IN ctl' = next.c /\ storageBreaker' = next.b
  /\ UNCHANGED <<thresholds, rules, breaker, req, testInput, testOutput, app, stamps>>

\* The handler calls azureService.moderateImage or moderateVideo.
CallModeration ==
  /\ ctl.pc = "moderating"
  /\ req["r1"].pc = "idle"
  /\ IF ForImage(ctl.method) THEN ModerateImage("r1") ELSE ModerateVideo("r1", ctl.frames)

\* The service has returned; the handler answers or starts storing.
TakeVerdict(thumbnailOk) ==
  /\ ctl.pc = "moderating"
  /\ req["r1"].pc = "done"
  /\ LET c == [ctl EXCEPT !.verdict = req["r1"].ret.verdict, !.calls = req["r1"].calls]
         next == AfterModeration(c, storageBreaker, thumbnailOk)
     IN ctl' = next.c /\ storageBreaker' = next.b
  /\ req' = [req EXCEPT !["r1"] = IdleRequest]
  /\ UNCHANGED <<thresholds, rules, breaker, testInput, testOutput, app, stamps>>

\* Mutant of StorageResponds: the outcome is also recorded in the classifier's
\* breaker, as if the two services shared one instance.
StorageRespondsSharedBreaker(failed) ==
  /\ ctl.pending > 0
  /\ \E b \in StorageBreakerAfter(storageBreaker, failed, ctl.probe) :
       LET settled == StorageOutcome([ctl EXCEPT !.pending = @ - 1, !.probe = FALSE], failed)
           next == StorageSettled(settled, b, failed)
       IN ctl' = next.c /\ storageBreaker' = next.b
  /\ breaker' \in BreakerAfter(breaker, failed, FALSE)
  /\ UNCHANGED <<thresholds, rules, req, testInput, testOutput, app, stamps>>

\* A storage call in flight succeeds, or fails or is timed out by the breaker.
StorageResponds(failed) ==
  /\ ctl.pending > 0
  /\ \E b \in StorageBreakerAfter(storageBreaker, failed, ctl.probe) :
       LET settled == StorageOutcome([ctl EXCEPT !.pending = @ - 1, !.probe = FALSE], failed)
           next == StorageSettled(settled, b, failed)
       IN ctl' = next.c /\ storageBreaker' = next.b
  /\ UNCHANGED <<thresholds, rules, breaker, req, testInput, testOutput, app, stamps>>

\* resetTimeout has passed since the storage breaker opened.
StorageResetTimeoutElapses ==
  /\ storageBreaker.status = "open"
  /\ storageBreaker' = [storageBreaker EXCEPT !.status = "halfOpen", !.probing = FALSE]
  /\ UNCHANGED <<thresholds, rules, breaker, req, testInput, testOutput, ctl, app, stamps>>

\* The oldest outcome leaves the storage breaker's rolling window.
StorageWindowExpires ==
  /\ storageBreaker.calls > 0
  /\ \E w \in { [storageBreaker EXCEPT !.calls = @ - 1],
                [storageBreaker EXCEPT !.calls = @ - 1, !.failures = @ - 1] } :
       /\ w.failures >= 0 /\ w.failures <= w.calls
       /\ storageBreaker' = w
  /\ UNCHANGED <<thresholds, rules, breaker, req, testInput, testOutput, ctl, app, stamps>>

\* While the handler is at work, a storage call made by another request that
\* is being handled at the same time goes through the same storage breaker
\* and settles.
OtherStorageCall(failed) ==
  /\ ctl.pc \notin {"idle", "responded"}
  /\ BreakerAdmits(storageBreaker)
  /\ storageBreaker' \in StorageBreakerAfter(BreakerInvoked(storageBreaker), failed,
                                             storageBreaker.status = "halfOpen")
  /\ UNCHANGED <<thresholds, rules, breaker, req, testInput, testOutput, ctl, app, stamps>>

\* The answer is sent and no storage call is left in flight; the next request
\* can come.
Completed ==
  /\ ctl.pc = "responded"
  /\ ctl.pending = 0
  /\ ctl' = IdleController
  /\ UNCHANGED <<thresholds, rules, breaker, req, testInput, testOutput, storageBreaker, app, stamps>>

\* --------------------------------------------------- _calculateTimestamps
\* Durations are whole seconds.  With count + 1 as the common denominator
\* every number the function computes is a fraction num / den.
Fraction(num, den) == [num |-> num, den |-> den]

Min(a, b) == IF a <= b THEN a ELSE b

\* Number.prototype.toString for a fraction: a minus sign when negative, then
\* the digits of the magnitude.
NumberToString(x) ==
  [minus |-> x.num < 0, num |-> IF x.num < 0 THEN -x.num ELSE x.num, den |-> x.den]

\* The number a timestamp string denotes, as a fraction.
StringToNumber(str) == Fraction(IF str.minus THEN -str.num ELSE str.num, str.den)

\* The loop of _calculateTimestamps from i on: the timestamps pushed.
RECURSIVE TimestampsFrom(_, _, _)
TimestampsFrom(i, duration, count) ==
  IF i > count THEN <<>>
  ELSE LET den == count + 1
           \* interval = Math.max(5, duration / (count + 1)), times den
           interval == Max(5 * den, duration)
           \* Math.min(duration - 5, i * interval), times den
           timestamp == Fraction(Min((duration - 5) * den, i * interval), den)
       IN <<NumberToString(timestamp)>> \o TimestampsFrom(i + 1, duration, count)

\* _calculateTimestamps(duration, count).
CalculateTimestamps(duration, count) ==
  LET timestamps == TimestampsFrom(1, duration, count)
  IN IF Len(timestamps) = 0 THEN <<NumberToString(Fraction(5, 1))>> ELSE timestamps

NoStamps == [called |-> FALSE, duration |-> 0, count |-> 0, timestamps |-> <<>>]

\* generateVideoThumbnails calls it with the duration ffprobe reported.
CalculateTimestampsCall(duration, count) ==
  /\ ~stamps.called
  /\ stamps' = [called |-> TRUE, duration |-> duration, count |-> count,
                timestamps |-> CalculateTimestamps(duration, count)]
  /\ UNCHANGED <<thresholds, rules, breaker, req, testInput, testOutput, ctl, storageBreaker, app>>

\* ------------------------------------------------------------- startup
\* The six values config.js reads from the environment without a default.
EnvPaths ==
  {"r2.endpoint", "r2.accessKeyId", "r2.secretAccessKey", "r2.bucketName",
   "azure.endpoint", "azure.key"}

\* The values config.js writes as literals.
LiteralPaths ==
  {"moderation.thresholds", "moderation.rules", "timeouts",
   "circuitBreaker.azure", "circuitBreaker.r2"}

ConfigPaths == EnvPaths \cup LiteralPaths

\* A variable of the environment is set, set to the empty string, or unset.
EnvValues == {"set", "empty", "unset"}

Environments == [EnvPaths -> EnvValues]

\* The config object: process.env values as they are, literals as written.
Config(env) == [path \in ConfigPaths |-> IF path \in EnvPaths THEN env[path] ELSE "set"]

\* !value
Falsy(value) == value \in {"empty", "unset"}

\* Mutant of Required: the classifier's endpoint and key are not checked.
RequiredR2Only == {"r2.endpoint", "r2.accessKeyId", "r2.secretAccessKey", "r2.bucketName"}

\* validateConfig's list of required paths.
Required ==
  {"r2.endpoint", "r2.accessKeyId", "r2.secretAccessKey", "r2.bucketName",
   "azure.endpoint", "azure.key"}

\* validateConfig's missing array, as a set.
Missing(config) == {path \in Required : Falsy(config[path])}

LoadingApp(env) == [config |-> Config(env), phase |-> "loading"]

\* The process once it serves requests, every value present.
ListeningApp == [config |-> Config([path \in EnvPaths |-> "set"]), phase |-> "listening"]

\* config.validate() at the top of app.js: throws, which ends the process, or
\* returns.
ValidateConfig ==
  /\ app.phase = "loading"
  /\ app' = [app EXCEPT !.phase = IF Missing(app.config) # {} THEN "failed" ELSE "validated"]
  /\ UNCHANGED <<thresholds, rules, breaker, req, testInput, testOutput, ctl, storageBreaker, stamps>>

\* app.listen, reached only when validate returned.
Listen ==
  /\ app.phase = "validated"
  /\ app' = [app EXCEPT !.phase = "listening"]
  /\ UNCHANGED <<thresholds, rules, breaker, req, testInput, testOutput, ctl, storageBreaker, stamps>>

Init ==
  /\ thresholds = DefaultThresholds
  /\ rules = DefaultRules
  /\ breaker = ClosedBreaker
  /\ req = [r \in Requests |-> IdleRequest]
  /\ testInput = <<>>
  /\ testOutput = NoTest
  /\ ctl = IdleController
  /\ storageBreaker = ClosedBreaker
  /\ app = ListeningApp
  /\ stamps = NoStamps

Next ==
  \/ \E r \in Requests : ModerateImage(r)
  \/ \E r \in Requests, n \in 0..MaxFrames : ModerateVideo(r, n)
  \/ \E r \in Requests, response \in ClassifierResponses : ClassifierResponds(r, response)
  \/ \E r \in Requests : BreakerTimeout(r)
  \/ ResetTimeoutElapses
  \/ WindowExpires
  \/ \E r \in Requests : Returned(r)

Spec == Init /\ [][Next]_vars

RulesInit ==
  /\ thresholds \in ThresholdConfigs
  /\ rules \in RuleConfigs
  /\ breaker = ClosedBreaker
  /\ req = [r \in Requests |-> IdleRequest]
  /\ testInput = <<>>
  /\ testOutput = NoTest
  /\ ctl = IdleController
  /\ storageBreaker = ClosedBreaker
  /\ app = ListeningApp
  /\ stamps = NoStamps

\* One evaluation per behaviour: the functions are pure.
RulesNext ==
  /\ testOutput = NoTest
  /\ \E testCategories \in CategoryLists : TestModerationRules(testCategories)

RulesSpec == RulesInit /\ [][RulesNext]_vars

\* ---------------------------------------------------- process startup
StartupInit ==
  /\ thresholds = DefaultThresholds
  /\ rules = DefaultRules
  /\ breaker = ClosedBreaker
  /\ req = [r \in Requests |-> IdleRequest]
  /\ testInput = <<>>
  /\ testOutput = NoTest
  /\ ctl = IdleController
  /\ storageBreaker = ClosedBreaker
  /\ \E env \in Environments : app = LoadingApp(env)
  /\ stamps = NoStamps

\* Startup, then requests whose bytes validateFile cannot accept: each is
\* answered at once.
StartupNext ==
  \/ ValidateConfig
  \/ Listen
  \/ \E method \in {"moderateImage", "moderateVideo"}, source \in BOOLEAN, creatorId \in BOOLEAN :
       ControllerRequest(method, source, creatorId, FALSE, "unknown", 0, "ok")
  \/ Completed

StartupSpec == StartupInit /\ [][StartupNext]_vars

\* ---------------------------------------- _calculateTimestamps, called
\* One call per behaviour: the function is pure.
TimestampNext ==
  \E duration \in 1..MaxDuration, count \in 0..MaxCount : CalculateTimestampsCall(duration, count)

TimestampSpec == Init /\ [][TimestampNext]_vars

\* ------------------------------------------------------ _calculateAIScore

\* The severities a caller can pass: numbers from the classifier's range, a
\* negative number, NaN, and a value that is not a number.
ScoreSeverities ==
  { NumberValue(v) : v \in 0..MaxScoreSeverity }
  \cup { NumberValue(-v) : v \in 1..MaxNegative }
  \cup { NaNValue, OtherValue }

RECURSIVE ScoreListsUpTo(_)
ScoreListsUpTo(n) ==
  IF n = 0 THEN { <<>> }
  ELSE LET shorter == ScoreListsUpTo(n - 1)
       IN shorter \cup { Append(l, [severity |-> v]) :
                           l \in { x \in shorter : Len(x) = n - 1 }, v \in ScoreSeverities }

ScoreLists == ScoreListsUpTo(MaxScoreLen)

\* One call of _calculateAIScore(categories).
CalculateAIScoreCall(categories) ==
  /\ testInput' = categories
  /\ testOutput' = [called |-> TRUE, ai_score |-> AIScore(categories)]
  /\ UNCHANGED <<thresholds, rules, breaker, req, ctl, storageBreaker, app, stamps>>

ScoreNext ==
  /\ testOutput = NoTest
  /\ \E categories \in ScoreLists : CalculateAIScoreCall(categories)

ScoreSpec == Init /\ [][ScoreNext]_vars

\* ------------------------------------------------- one video, frame by frame

\* The analyses a frame can get: those of ResponseBodies, a second one no rule
\* rejects and a second one a rule rejects, for another reason.
VideoBodies ==
  ResponseBodies
  \cup { << [category |-> "Sexual", severity |-> 2] >>,
         << [category |-> "Violence", severity |-> 2] >> }

VideoResponses ==
  { [kind |-> "ok", body |-> b] : b \in VideoBodies }
  \cup { [kind |-> k, body |-> <<>>] : k \in {"noCategories", "notIterable", "status", "transport"} }

\* One caller moderating videos, one after the other.
VideoNext ==
  \/ \E n \in 0..MaxFrames : ModerateVideo("r1", n)
  \/ \E response \in VideoResponses : ClassifierResponds("r1", response)
  \/ BreakerTimeout("r1")
  \/ ResetTimeoutElapses
  \/ WindowExpires
  \/ Returned("r1")

VideoSpec == Init /\ [][VideoNext]_vars

\* ----------------------------------------------- the controller's handlers

\* The thumbnails of a video; an image is one frame.
\* The count the video handlers pass to generateVideoThumbnails, which
\* returns that many thumbnails or throws.
ThumbnailCount == 3

FramesOf(method) == IF ForImage(method) THEN {1} ELSE {ThumbnailCount}

\* The disk matters to a video handler that got video bytes, the type field
\* to the handlers that read a request body from R2's caller.
DisksOf(method, content) ==
  IF ~ForImage(method) /\ content = "video" THEN Disks ELSE {"ok"}

TypesOf(method) == IF FromR2(method) THEN BOOLEAN ELSE {FALSE}

ControllerNext ==
  \/ \E method \in Methods, source \in BOOLEAN, creatorId \in BOOLEAN, content \in Contents :
       \E type \in TypesOf(method), frames \in FramesOf(method),
          disk \in DisksOf(method, content) :
         ControllerRequest(method, source, creatorId, type, content, frames, disk)
  \/ CallModeration
  \/ \E response \in ClassifierResponses : ClassifierResponds("r1", response)
  \/ BreakerTimeout("r1")
  \/ ResetTimeoutElapses
  \/ WindowExpires
  \/ \E thumbnailOk \in BOOLEAN : TakeVerdict(thumbnailOk)
  \/ \E failed \in BOOLEAN : StorageResponds(failed)
  \/ \E failed \in BOOLEAN : OtherStorageCall(failed)
  \/ StorageResetTimeoutElapses
  \/ StorageWindowExpires
  \/ Completed

ControllerSpec == Init /\ [][ControllerNext]_vars

\* ------------------------------------------------------------------ claims

HasAtLeast(categories, name, t) ==
  \E k \in DOMAIN categories : categories[k].category = name /\ categories[k].severity >= t

\* C1 (zero tolerance): every evaluated category list holding a Child entry of
\* severity >= thresholds.child is rejected, whatever else the list holds and
\* whatever the compound-rule toggles are.
C1_ZeroTolerance ==
  (testOutput.called /\ HasAtLeast(testInput, "Child", thresholds.child))
    => testOutput.verdict = "rejected"

\* A Child entry exactly at the threshold beside an entry of another category,
\* with every compound rule switched off, was evaluated.
C1_Witness ==
  /\ testOutput.called
  /\ Len(testInput) = 2
  /\ \E k \in DOMAIN testInput :
       testInput[k].category = "Child" /\ testInput[k].severity = thresholds.child
  /\ \E k \in DOMAIN testInput : testInput[k].category # "Child"
  /\ ~rules.childWithViolence /\ ~rules.childWithHate /\ ~rules.sexualWithChild
  /\ testOutput.verdict = "rejected"

\* The order the rules are documented to be scanned in.
C10_Order ==
  << "child", "violence", "weapons", "hate", "selfHarm", "sexual",
     "childWithViolence", "childWithHate", "sexualWithChild" >>

\* Whether the rule of that name holds of the evaluated list.
C10_Holds(name) ==
  LET child == HasAtLeast(testInput, "Child", thresholds.child)
      violence == testOutput.violenceScore >= 2 * thresholds.violence
      weapons == testOutput.weaponScore >= 2 * thresholds.weapons
      hate == HasAtLeast(testInput, "Hate", thresholds.hate)
  IN CASE name = "child" -> child
       [] name = "violence" -> violence
       [] name = "weapons" -> weapons
       [] name = "hate" -> hate
       [] name = "selfHarm" -> HasAtLeast(testInput, "SelfHarm", thresholds.selfHarm)
       [] name = "sexual" -> HasAtLeast(testInput, "Sexual", thresholds.sexual)
       [] name = "childWithViolence" -> rules.childWithViolence /\ child /\ (violence \/ weapons)
       [] name = "childWithHate" -> rules.childWithHate /\ child /\ hate
       [] name = "sexualWithChild" ->
            rules.sexualWithChild /\ child /\ HasAtLeast(testInput, "Sexual", SexualWithChildSeverity)

C10_Matching == { k \in DOMAIN C10_Order : C10_Holds(C10_Order[k]) }

\* C10 (first match wins): the reason returned is that of the first rule, in
\* the documented order, whose condition holds; with none the list is accepted
\* with a null reason.
C10_FirstMatchWins ==
  testOutput.called =>
    IF C10_Matching = {}
    THEN testOutput.verdict = "accepted" /\ testOutput.rejectionReason = NullReason
    ELSE LET first == CHOOSE k \in C10_Matching : \A j \in C10_Matching : k <= j
         IN /\ testOutput.verdict = "rejected"
            /\ testOutput.rejectionReason.rule = C10_Order[first]
            /\ C10_Order[first] = "violence"
                 => testOutput.rejectionReason.score = testOutput.violenceScore
            /\ C10_Order[first] = "weapons"
                 => testOutput.rejectionReason.score = testOutput.weaponScore

\* A list on which a baseline rule other than the first and an enabled compound
\* rule both hold was evaluated, and the earlier one gave the reason.
C10_Witness ==
  /\ testOutput.called
  /\ Cardinality(C10_Matching) >= 3
  /\ \E k \in C10_Matching : k > 6
  /\ testOutput.rejectionReason.rule = "child"

FailureOutcomes == {"status", "transport", "timeout", "open", "halfOpen"}

\* C2 (fail closed): an image moderation whose classifier call failed (error
\* status, transport error, breaker timeout, breaker open) returns the fixed
\* fallback: rejected, the unavailable reason, no categories, score 0.
C2_FailClosed ==
  \A r \in Requests :
    (req[r].kind = "image" /\ req[r].pc = "done" /\ req[r].outcome \in FailureOutcomes)
      => /\ req[r].ret.verdict = "rejected"
         /\ req[r].ret.rejectionReason = UnavailableReason
         /\ req[r].ret.categories = <<>>
         /\ req[r].ret.ai_score = [num |-> 0, den |-> 1]

\* One image request was turned away by the open breaker while another's call
\* ran into the breaker's timeout.
C2_Witness ==
  \E r1, r2 \in Requests :
    /\ req[r1].kind = "image" /\ req[r1].pc = "done" /\ req[r1].outcome = "open"
    /\ req[r2].kind = "image" /\ req[r2].pc = "done" /\ req[r2].outcome = "timeout"
    /\ req[r1].ret.verdict = "rejected" /\ req[r2].ret.verdict = "rejected"

\* C3 (malformed response): an image moderation whose classifier answered 200
\* without a usable category list ends with the fail-closed rejection.
C3_MalformedFailsClosed ==
  \A r \in Requests :
    (req[r].kind = "image" /\ req[r].pc = "done"
       /\ req[r].outcome \in {"noCategories", "notIterable"})
      => req[r].ret = FallbackModeration

\* C4 (rejected carries a reason): every returned verdict that is rejected has
\* a rejectionReason that is neither null nor missing.
C4_RejectedHasReason ==
  \A r \in Requests :
    (req[r].pc = "done" /\ req[r].ret.verdict = "rejected")
      => req[r].ret.rejectionReason \notin {NullReason, UndefinedReason}

\* A video was rejected by a rule on its second frame while an image was
\* rejected by the fallback.
C4_Witness ==
  \E r1, r2 \in Requests :
    /\ req[r1].kind = "video" /\ req[r1].pc = "done" /\ req[r1].i = 2
    /\ req[r1].outcome = "ok" /\ req[r1].ret.verdict = "rejected"
    /\ req[r2].kind = "image" /\ req[r2].pc = "done"
    /\ req[r2].ret = FallbackModeration

\* C5 (short circuit): the frames of a video are submitted one at a time in
\* list order, a frame is submitted only while every earlier frame was
\* accepted, and a video that a rule rejected on frame k made exactly k calls.
C5_ShortCircuit ==
  \A r \in Requests :
    req[r].kind = "video" =>
      /\ req[r].pc = "awaiting" =>
           /\ req[r].calls = Len(req[r].results) + 1
           /\ req[r].i = req[r].calls
           /\ \A k \in DOMAIN req[r].results : req[r].results[k].verdict = "accepted"
      /\ (req[r].pc = "done" /\ req[r].outcome \in {"ok", "noCategories"}
            /\ req[r].ret.verdict = "rejected")
           => req[r].calls = req[r].i

\* A video of 3 frames was rejected on its second frame after exactly 2 calls.
C5_Witness ==
  \E r \in Requests :
    /\ req[r].kind = "video" /\ req[r].n = 3 /\ req[r].pc = "done"
    /\ req[r].outcome = "ok" /\ req[r].ret.verdict = "rejected"
    /\ req[r].i = 2 /\ req[r].calls = 2

\* C6 (no exception escapes): every invocation that has ended returned a
\* verdict object, accepted or rejected, and a video whose call for some frame
\* failed returned the fail-closed fallback.
C6_NoEscape ==
  \A r \in Requests :
    /\ req[r].pc \in {"idle", "awaiting", "done"}
    /\ req[r].pc = "done" => req[r].ret.verdict \in {"accepted", "rejected"}
    /\ (req[r].pc = "done" /\ req[r].kind = "video"
          /\ req[r].outcome \in FailureOutcomes \cup {"notIterable"})
         => req[r].ret = FallbackModeration

\* A video of 3 frames whose first two frames were accepted ended with the
\* fallback when the call for its third frame failed in transport.
C6_Witness ==
  \E r \in Requests :
    /\ req[r].kind = "video" /\ req[r].n = 3 /\ req[r].i = 3 /\ req[r].calls = 3
    /\ req[r].pc = "done" /\ req[r].outcome = "transport"
    /\ req[r].ret = FallbackModeration

\* C7 (open means no call): in a step taken while the breaker is open no
\* request invokes the classifier.
C7_NoCallWhileOpen ==
  [][breaker.status = "open" =>
       \A r \in Requests :
         /\ req'[r].calls <= req[r].calls
         /\ req'[r].pc = "awaiting" => req'[r] = req[r]]_vars

\* With the breaker open, a video that had made one call had the call for its
\* second frame rejected by the breaker.
C7_Witness ==
  /\ breaker.status = "open"
  /\ \E r \in Requests :
       /\ req[r].kind = "video" /\ req[r].pc = "done" /\ req[r].outcome = "open"
       /\ req[r].i = 2 /\ req[r].calls = 1
       /\ req[r].ret = FallbackModeration

\* C9 (half-open probe): the open breaker leaves that state only by becoming
\* half-open when resetTimeout elapses; half-open has at most one probe in
\* flight; while it is in flight no other request invokes the classifier; the
\* probe's success closes the breaker and its failure or timeout reopens it.
C9_HalfOpenProbe ==
  [][/\ (breaker.status = "open" /\ breaker'.status # "open")
          => breaker'.status = "halfOpen" /\ ~breaker'.probing /\ req' = req
     /\ Cardinality({ r \in Requests : req[r].pc = "awaiting" /\ req[r].probe }) <= 1
     /\ (breaker.status = "halfOpen" /\ breaker.probing) =>
          \A r \in Requests :
            ~req[r].probe => /\ req'[r].calls <= req[r].calls
                             /\ req'[r].pc = "awaiting" => req'[r] = req[r]
     /\ \A r \in Requests :
          (req[r].pc = "awaiting" /\ req[r].probe /\ req'[r] # req[r]) =>
            /\ breaker.status = "halfOpen"
            /\ req'[r].outcome \in {"ok", "noCategories"} => breaker'.status = "closed"
            /\ req'[r].outcome \notin {"ok", "noCategories"} => breaker'.status = "open"]_vars

\* In half-open, with one request's probe in flight, the other request's call
\* was rejected by the breaker without being made.
C9_Witness ==
  /\ breaker.status = "halfOpen" /\ breaker.probing
  /\ \E r1, r2 \in Requests :
       /\ req[r1].pc = "awaiting" /\ req[r1].probe
       /\ req[r2].pc = "done" /\ req[r2].outcome = "halfOpen" /\ req[r2].calls = 0

\* The evaluated list holds Child and Hate entries at or above their thresholds
\* and the childWithHate rule is enabled.
C11_Case ==
  /\ testOutput.called
  /\ rules.childWithHate
  /\ HasAtLeast(testInput, "Child", thresholds.child)
  /\ HasAtLeast(testInput, "Hate", thresholds.hate)

\* C11 as stated (compound reason wins): with Child and Hate at or above their
\* thresholds and childWithHate enabled, the list is rejected with the
\* child-with-hate reason.
C11_CompoundReason ==
  C11_Case => /\ testOutput.verdict = "rejected"
              /\ testOutput.rejectionReason = Reason("childWithHate", 0)

\* C11 as amended (plain Child reason wins): with Child and Hate at or above
\* their thresholds and childWithHate enabled, the list is rejected with the
\* plain Child reason.
C11_ChildReason ==
  C11_Case => /\ testOutput.verdict = "rejected"
              /\ testOutput.rejectionReason = Reason("child", 0)

\* Child 1 and Hate 1 were evaluated under the shipped thresholds with
\* childWithHate enabled.
C11_Witness ==
  /\ C11_Case
  /\ thresholds = DefaultThresholds
  /\ testInput = << [category |-> "Child", severity |-> 1],
                    [category |-> "Hate", severity |-> 1] >>

\* C12 (sexual-only list): a list whose only entry is Sexual with severity >=
\* thresholds.sexual is rejected with the explicit-sexual-content reason.
C12_SexualReason ==
  (/\ testOutput.called
   /\ Len(testInput) = 1
   /\ testInput[1].category = "Sexual"
   /\ testInput[1].severity >= thresholds.sexual)
    => /\ testOutput.verdict = "rejected"
       /\ testOutput.rejectionReason = Reason("sexual", 0)

\* No entry of the evaluated list reaches the threshold of its own category.
C13_BelowOwnThresholds ==
  /\ ~HasAtLeast(testInput, "Child", thresholds.child)
  /\ ~HasAtLeast(testInput, "Violence", thresholds.violence)
  /\ ~HasAtLeast(testInput, "Hate", thresholds.hate)
  /\ ~HasAtLeast(testInput, "SelfHarm", thresholds.selfHarm)
  /\ ~HasAtLeast(testInput, "Sexual", thresholds.sexual)

\* C13 as stated (nothing reached, accepted): a list in which no entry reaches
\* the threshold of its own category (so that no compound rule holds either) is
\* accepted with a null reason.
C13_AcceptedBelowOwn ==
  (testOutput.called /\ C13_BelowOwnThresholds)
    => testOutput.verdict = "accepted" /\ testOutput.rejectionReason = NullReason

\* C13 as amended: a list in which no entry reaches the threshold of its own
\* category and neither boosted score reaches thresholds.violence or
\* thresholds.weapons is accepted with a null reason.
C13_AcceptedBelowAll ==
  (/\ testOutput.called
   /\ C13_BelowOwnThresholds
   /\ testOutput.violenceScore < 2 * thresholds.violence
   /\ testOutput.weaponScore < 2 * thresholds.weapons)
    => testOutput.verdict = "accepted" /\ testOutput.rejectionReason = NullReason

\* A list of two entries with nonzero severities, all below every threshold and
\* with both boosted scores nonzero and below theirs, was accepted.
C13_Witness ==
  /\ testOutput.called
  /\ C13_BelowOwnThresholds
  /\ Len(testInput) = 2
  /\ testOutput.violenceScore > 0 /\ testOutput.violenceScore < 2 * thresholds.violence
  /\ testOutput.weaponScore > 0 /\ testOutput.weaponScore < 2 * thresholds.weapons
  /\ testOutput.verdict = "accepted"

\* The largest severity among the entries of the given categories whose
\* severity is at least floor, 0 if there is none.
MaxSeverityAmong(categories, names, floor) ==
  LET S == { categories[i].severity : i \in { j \in DOMAIN categories :
                 /\ categories[j].category \in names
                 /\ categories[j].severity >= floor } } \cup {0}
  IN CHOOSE m \in S : \A x \in S : x <= m

\* The entries of categories in the order given by the permutation p.
Reordered(categories, p) == [i \in DOMAIN categories |-> categories[p[i]]]

\* A score in half units: twice the raw value plus the bonus, when nonzero.
Boosted(raw, bonus) == IF raw > 0 THEN 2 * raw + bonus ELSE 0

\* C14 as stated (violence score, Sexual adds 1): violenceScore is the maximum
\* Violence severity, plus 1 if any Sexual entry has severity >= 3, with
\* violenceBonus added when that value is nonzero.
C14_ViolencePlusOne ==
  testOutput.called =>
    testOutput.violenceScore =
      Boosted(MaxSeverityAmong(testInput, {"Violence"}, 0)
                + (IF HasAtLeast(testInput, "Sexual", SexualViolenceSeverity) THEN 1 ELSE 0),
              rules.violenceBonus)

\* C14 as amended (violence score, Sexual raises to 1): violenceScore is the
\* maximum Violence severity, raised to at least 1 if any Sexual entry has
\* severity >= 3, with violenceBonus added when that value is nonzero, and
\* every reordering of the entries gives the same value.
C14_ViolenceAtLeastOne ==
  testOutput.called =>
    /\ testOutput.violenceScore =
         Boosted(Max(MaxSeverityAmong(testInput, {"Violence"}, 0),
                     IF HasAtLeast(testInput, "Sexual", SexualViolenceSeverity) THEN 1 ELSE 0),
                 rules.violenceBonus)
    /\ \A p \in Permutations(DOMAIN testInput) :
         DetectWeaponsAndViolence(Reordered(testInput, p), rules).violenceScore
           = testOutput.violenceScore

\* A Sexual entry of severity 3 followed by a Violence entry of severity 2 was
\* scored: the Violence maximum stands and only the bonus is added.
C14_Witness ==
  /\ testOutput.called
  /\ testInput = << [category |-> "Sexual", severity |-> 3],
                    [category |-> "Violence", severity |-> 2] >>
  /\ testOutput.violenceScore = 2 * 2 + rules.violenceBonus

\* C15 (Violence rule on the boosted score): a list holding a Violence entry of
\* severity s > 0 with s + violenceBonus >= thresholds.violence is rejected,
\* and the score the Violence rule compared is at least s + violenceBonus.
C15_BoostedViolence ==
  testOutput.called =>
    \A i \in DOMAIN testInput :
      (/\ testInput[i].category = "Violence"
       /\ testInput[i].severity > 0
       /\ 2 * testInput[i].severity + rules.violenceBonus >= 2 * thresholds.violence)
        => /\ testOutput.verdict = "rejected"
           /\ testOutput.violenceScore >= 2 * testInput[i].severity + rules.violenceBonus

\* Violence 1 alone under the shipped thresholds: boosted to 1.5 and rejected
\* by the Violence rule.
C15_Witness ==
  /\ testOutput.called
  /\ thresholds = DefaultThresholds
  /\ testInput = << [category |-> "Violence", severity |-> 1] >>
  /\ testOutput.verdict = "rejected"
  /\ testOutput.rejectionReason = Reason("violence", 3)

\* C16 (weapon score): weaponScore is the maximum severity among Hate and
\* SelfHarm entries with severity >= 1, 0 if there is none, plus weaponBonus
\* exactly when that maximum is nonzero.
C16_WeaponScore ==
  testOutput.called =>
    LET m == MaxSeverityAmong(testInput, {"Hate", "SelfHarm"}, 1)
    IN /\ m > 0 => testOutput.weaponScore = 2 * m + rules.weaponBonus
       /\ m = 0 => testOutput.weaponScore = 0

\* A Hate entry and a larger SelfHarm entry were scored: the larger one plus
\* the bonus.
C16_Witness ==
  /\ testOutput.called
  /\ testInput = << [category |-> "Hate", severity |-> 1],
                    [category |-> "SelfHarm", severity |-> 2] >>
  /\ testOutput.weaponScore = 2 * 2 + rules.weaponBonus

\* The numeric severities of the list, a severity of another type counted as 0.
RECURSIVE NumericTotal(_)
NumericTotal(categories) ==
  IF categories = <<>> THEN 0
  ELSE (IF Head(categories).severity.type = "number" THEN Head(categories).severity.value ELSE 0)
       + NumericTotal(Tail(categories))

\* Some severity of the list is NaN.
HasNaN(categories) == \E k \in DOMAIN categories : categories[k].severity.nan

\* Some severity of the list is a negative number.
HasNegative(categories) ==
  \E k \in DOMAIN categories :
    /\ categories[k].severity.type = "number"
    /\ ~categories[k].severity.nan
    /\ categories[k].severity.value < 0

\* The score is the mean of the list: score * length = total.
IsMean(score, categories) ==
  /\ score.den > 0
  /\ score.num * Len(categories) = NumericTotal(categories) * score.den

\* C17 as stated (mean, never negative): the score is the mean of the
\* severities with a non-numeric severity counted as 0, is 0 for the empty
\* list, and is never negative and never NaN for any list.
C17_MeanNeverNegative ==
  testOutput.called =>
    /\ testOutput.ai_score.den > 0
    /\ testInput = <<>> => testOutput.ai_score = ZeroScore
    /\ ~HasNaN(testInput) => IsMean(testOutput.ai_score, testInput)
    /\ testOutput.ai_score.num >= 0

\* C17 as amended (mean, negative only for negative input): the score is the
\* mean of the severities with a non-numeric severity counted as 0, is 0 for
\* the empty list and for a list holding a NaN severity, is never NaN, and is
\* never negative when no severity is a negative number.
C17_MeanOfSeverities ==
  testOutput.called =>
    /\ testOutput.ai_score.den > 0
    /\ testInput = <<>> => testOutput.ai_score = ZeroScore
    /\ HasNaN(testInput) => testOutput.ai_score = ZeroScore
    /\ ~HasNaN(testInput) => IsMean(testOutput.ai_score, testInput)
    /\ ~HasNegative(testInput) => testOutput.ai_score.num >= 0

\* Severities 4, 2 and a non-numeric one were scored: (4 + 2 + 0) / 3 = 2.
C17_Witness ==
  /\ testOutput.called
  /\ testInput = << [severity |-> NumberValue(4)], [severity |-> NumberValue(2)],
                    [severity |-> OtherValue] >>
  /\ testOutput.ai_score = [num |-> 2, den |-> 1]

\* The category lists of the frames processed so far by request r, in frame
\* order, followed by the list of the frame whose response arrives.
FrameLists(r, response) ==
  [k \in 1..Len(req[r].results) |-> req[r].results[k].categories]
    \o << CallAzureAPI(response, thresholds, rules).result.categories >>

RECURSIVE TotalCount(_)
TotalCount(frames) ==
  IF frames = <<>> THEN 0 ELSE Len(Head(frames)) + TotalCount(Tail(frames))

RECURSIVE TotalOf(_)
TotalOf(categories) ==
  IF categories = <<>> THEN 0 ELSE Head(categories).severity + TotalOf(Tail(categories))

RECURSIVE TotalSeverity(_)
TotalSeverity(frames) ==
  IF frames = <<>> THEN 0 ELSE TotalOf(Head(frames)) + TotalSeverity(Tail(frames))

\* categories is the lists of frames laid end to end in frame order.
IsConcatenation(categories, frames) ==
  /\ Len(categories) = TotalCount(frames)
  /\ \A k \in DOMAIN frames : \A j \in DOMAIN frames[k] :
       categories[TotalCount(SubSeq(frames, 1, k - 1)) + j] = frames[k][j]

\* score is the sum of all severities of all frames over the number of entries.
IsPooledMean(score, frames) ==
  IF TotalCount(frames) = 0 THEN score = ZeroScore
  ELSE score.den > 0 /\ score.num * TotalCount(frames) = TotalSeverity(frames) * score.den

\* The response completes the last frame of request r's video, accepted like
\* every frame before it.
C18_LastFrameAccepted(r, response) ==
  /\ ClassifierResponds(r, response)
  /\ req[r].kind = "video"
  /\ req[r].i = req[r].n
  /\ ~CallAzureAPI(response, thresholds, rules).thrown
  /\ CallAzureAPI(response, thresholds, rules).result.verdict = "accepted"
  /\ \A k \in DOMAIN req[r].results : req[r].results[k].verdict = "accepted"

\* C18 (all frames accepted): when the last frame of a video is accepted like
\* every frame before it, moderateVideo returns accepted, with categories the
\* concatenation in frame order of the frames' lists and ai_score the mean over
\* that pooled list.
C18_AllAccepted ==
  [][\A response \in VideoResponses :
       C18_LastFrameAccepted("r1", response) =>
         /\ req'["r1"].pc = "done"
         /\ req'["r1"].ret.verdict = "accepted"
         /\ IsConcatenation(req'["r1"].ret.categories, FrameLists("r1", response))
         /\ IsPooledMean(req'["r1"].ret.ai_score, FrameLists("r1", response))]_vars

\* A video of two frames was accepted: the first frame had one entry, the
\* second two, and the score is 4 / 3, not the mean 3 / 2 of the frames' means.
C18_Witness ==
  /\ req["r1"].kind = "video" /\ req["r1"].pc = "done" /\ req["r1"].n = 2
  /\ req["r1"].ret.verdict = "accepted"
  /\ req["r1"].ret.categories =
       << [category |-> "Sexual", severity |-> 2],
          [category |-> "Sexual", severity |-> 2], [category |-> "Violence", severity |-> 0] >>
  /\ req["r1"].ret.ai_score = [num |-> 4, den |-> 3]

\* The response is a rejected analysis of the frame request r's video awaits.
C19_FrameRejected(r, response) ==
  /\ ClassifierResponds(r, response)
  /\ req[r].kind = "video"
  /\ ~CallAzureAPI(response, thresholds, rules).thrown
  /\ CallAzureAPI(response, thresholds, rules).result.verdict = "rejected"

\* C19 (rejected frame): when a frame of a video is rejected, moderateVideo
\* returns rejected with that frame's rejectionReason; every frame before it
\* was accepted and no frame after it is processed.
C19_FrameReason ==
  [][\A response \in VideoResponses :
       C19_FrameRejected("r1", response) =>
         /\ req'["r1"].pc = "done"
         /\ req'["r1"].ret.verdict = "rejected"
         /\ req'["r1"].ret.rejectionReason =
              CallAzureAPI(response, thresholds, rules).result.rejectionReason
         /\ \A k \in DOMAIN req["r1"].results : req["r1"].results[k].verdict = "accepted"
         /\ req'["r1"].i = req["r1"].i
         /\ req'["r1"].calls = req["r1"].calls]_vars

\* A video of three frames was rejected at its second frame by the Violence
\* rule; the third frame was never sent.
C19_Witness ==
  /\ req["r1"].kind = "video" /\ req["r1"].pc = "done"
  /\ req["r1"].n = 3 /\ req["r1"].i = 2 /\ req["r1"].calls = 2
  /\ req["r1"].outcome = "ok"
  /\ req["r1"].ret.verdict = "rejected"
  /\ req["r1"].ret.rejectionReason = Reason("violence", 5)

\* C20 (zero frames): moderateVideo called with no frame does not return
\* accepted.
C20_EmptyVideoFailsClosed ==
  \A r \in Requests :
    (req[r].kind = "video" /\ req[r].n = 0 /\ req[r].pc = "done")
      => req[r].ret.verdict # "accepted"

C23_SharedBreakerOnly ==
  \A r \in Requests :
    /\ (req[r].pc = "done" /\ req[r].ret.verdict = "accepted")
         => /\ req[r].calls = req[r].n
            /\ req[r].outcome \notin FailureOutcomes
            /\ req[r].ret.rejectionReason \in {NullReason, UndefinedReason}
    /\ (req[r].pc = "done" /\ req[r].outcome \in {"open", "halfOpen"})
         => req[r].ret = FallbackModeration

\* A request none of whose calls was invoked was refused by the open breaker
\* while the other request's call had failed.
C23_Witness ==
  \E r \in Requests, s \in Requests :
    /\ r # s
    /\ req[r].pc = "done" /\ req[r].outcome = "open" /\ req[r].calls = 0
    /\ req[r].ret.verdict = "rejected"
    /\ req[s].pc = "done" /\ req[s].outcome \in {"status", "transport", "timeout"}

\* C24 (diagnostic entry point): testModerationRules returns the verdict,
\* rejectionReason and ai_score that _callAzureAPI returns for a response
\* carrying the same categories, and it leaves the breaker and every request
\* as they were: no classifier invocation.
C24_SameAsClassification ==
  testOutput.called =>
    LET call == CallAzureAPI([kind |-> "ok", body |-> testInput], thresholds, rules)
    IN /\ ~call.thrown
       /\ testOutput.verdict = call.result.verdict
       /\ testOutput.rejectionReason = call.result.rejectionReason
       /\ testOutput.ai_score = call.result.ai_score
       /\ breaker = ClosedBreaker
       /\ req = [r \in Requests |-> IdleRequest]

\* A list the Sexual rule rejects only under a lowered sexual threshold was
\* evaluated by testModerationRules.
C24_Witness ==
  /\ testOutput.called
  /\ thresholds.sexual < DefaultThresholds.sexual
  /\ testInput = << [category |-> "Sexual", severity |-> 2] >>
  /\ testOutput.verdict = "rejected"
  /\ testOutput.rejectionReason = Reason("sexual", 0)
  /\ testOutput.ai_score = [num |-> 2, den |-> 1]

\* C25 (configuration is never mutated): no step changes the thresholds, the
\* compound-rule flags or the bonuses, so a category list evaluated before and
\* after any step gets the same outcome and reason.
C25_ConfigFrozen ==
  [][/\ thresholds' = thresholds
     /\ rules' = rules
     /\ \A categories \in ResponseBodies :
          ApplyModerationRules(categories, thresholds', rules')
            = ApplyModerationRules(categories, thresholds, rules)]_vars

\* One request has ended on a classified image and another on a classified
\* video, under the configuration the service was built with.
C25_Witness ==
  /\ thresholds = DefaultThresholds /\ rules = DefaultRules
  /\ \E r \in Requests, s \in Requests :
       /\ req[r].kind = "image" /\ req[r].pc = "done" /\ req[r].outcome = "ok"
       /\ req[s].kind = "video" /\ req[s].pc = "done" /\ req[s].outcome = "ok"

\* The rules with the three compound toggles disabled.
TogglesOff(rl) ==
  [rl EXCEPT !.childWithViolence = FALSE, !.childWithHate = FALSE, !.sexualWithChild = FALSE]

\* C29 (compound rules never decide): for every list and every setting of the
\* three toggles, the rejected flag and the reason are those obtained with all
\* three toggles disabled.
C29_CompoundNeverDecides ==
  testOutput.called =>
    LET off == ApplyModerationRules(testInput, thresholds, TogglesOff(rules))
    IN /\ testOutput.verdict = VerdictOf(off)
       /\ testOutput.rejectionReason = off.reason

\* With the three toggles enabled, a list satisfying the conditions of the
\* childWithViolence and childWithHate rules was rejected with the plain Child
\* reason.
C29_Witness ==
  /\ testOutput.called
  /\ rules.childWithViolence /\ rules.childWithHate /\ rules.sexualWithChild
  /\ HasAtLeast(testInput, "Child", thresholds.child)
  /\ HasAtLeast(testInput, "Hate", thresholds.hate)
  /\ testOutput.weaponScore >= 2 * thresholds.weapons
  /\ testOutput.rejectionReason = Reason("child", 0)

\* C30 as stated (invocations equal the index): when moderateVideo over n > 0
\* frames has ended, the number of classifier invocations is the index of the
\* frame at which the loop ended, the first one rejected or failing, or n.
C30_InvocationsEqualIndex ==
  (req["r1"].kind = "video" /\ req["r1"].pc = "done" /\ req["r1"].n > 0)
    => req["r1"].calls = req["r1"].i

\* The response is a rejection or a failure of the frame request r's video
\* awaits.
C30_FrameFails(r, response) ==
  /\ ClassifierResponds(r, response)
  /\ req[r].kind = "video"
  /\ \/ CallAzureAPI(response, thresholds, rules).thrown
     \/ CallAzureAPI(response, thresholds, rules).result.verdict = "rejected"

\* The invocations of an ended video: the index of its last frame reached,
\* less one when the breaker refused that frame's call, and the loop stopped
\* short of n only on a rejected verdict.
C30_Ended(q) ==
  (q.kind = "video" /\ q.pc = "done" /\ q.n > 0)
    => /\ q.calls = (IF q.outcome \in {"open", "halfOpen"} THEN q.i - 1 ELSE q.i)
       /\ q.i < q.n => q.ret.verdict = "rejected"

\* C30 as amended (invocations and the first failure): the frame whose call is
\* rejected, fails or times out is the last one submitted, and when the video
\* has ended the number of classifier invocations is the index of that frame,
\* or n if there is none, less one when the breaker refused that frame's call
\* without invoking the classifier.
C30_InvocationCount ==
  [][/\ C30_Ended(req'["r1"])
     /\ \A response \in VideoResponses :
          C30_FrameFails("r1", response)
            => req'["r1"].pc = "done" /\ req'["r1"].i = req["r1"].i
     /\ (BreakerTimeout("r1") /\ req["r1"].kind = "video")
          => req'["r1"].pc = "done" /\ req'["r1"].i = req["r1"].i]_vars

\* A video of three frames ended at its second frame, whose call failed in
\* transport, after two invocations.
C30_Witness ==
  /\ req["r1"].kind = "video" /\ req["r1"].pc = "done"
  /\ req["r1"].n = 3 /\ req["r1"].i = 2
  /\ req["r1"].outcome = "transport"
  /\ req["r1"].calls = 2

\* The bytes are of a recognised kind that is not the handler's.
WrongKind(c) ==
  /\ c.content # "unknown"
  /\ (ForImage(c.method) /\ c.content # "image") \/ (~ForImage(c.method) /\ c.content # "video")

InputErrors == {"ValidationError", "InvalidFileTypeError"}

\* C21 as stated (input errors, every handler alike): a request answered by
\* any of the four handlers that lacked its file or key or its creator id, or
\* carried the wrong media kind, raised ValidationError or InvalidFileTypeError
\* with no classifier invocation.
C21_InputErrorsEveryHandler ==
  (/\ ctl.pc = "responded"
   /\ ~ctl.source \/ ~ctl.creatorId \/ WrongKind(ctl))
    => ctl.response \in InputErrors /\ ctl.calls = 0

\* An answered request and its error, handler by handler.
C21_Answered(c) ==
  c.pc = "responded" =>
    /\ c.response = "ValidationError" <=> MissingInput(c)
    /\ c.response = "InvalidFileTypeError" => ~MissingInput(c) /\ WrongKind(c)
    /\ (~FromR2(c.method) /\ ~MissingInput(c) /\ WrongKind(c))
         => c.response = "InvalidFileTypeError"
    /\ (FromR2(c.method) /\ ~MissingInput(c) /\ WrongKind(c))
         => c.response \in {"InvalidFileTypeError", "Error"}
    /\ c.response \in InputErrors
         => c.calls = 0 /\ c.uploads = 0 /\ c.verdict = "none"

\* C21 as amended (input errors, handler by handler): ValidationError is raised
\* exactly when the handler's own required inputs are missing (file and
\* creator id; r2Key and type for moderateImageFromR2; r2Key and creator id for
\* moderateVideoFromR2), InvalidFileTypeError for the wrong media kind once the
\* bytes are at hand, both with no classifier invocation, no upload and no
\* verdict, on a step that leaves the classifier breaker and the service's
\* requests as they were.
C21_InputErrors ==
  [][/\ C21_Answered(ctl')
     /\ (ctl.pc # "responded" /\ ctl'.pc = "responded" /\ ctl'.response \in InputErrors)
          => breaker' = breaker /\ req' = req]_vars

\* moderateVideoFromR2 downloaded an image and raised InvalidFileTypeError
\* while the classifier breaker had never been called.
C21_Witness ==
  /\ ctl.pc = "responded" /\ ctl.method = "moderateVideoFromR2"
  /\ ctl.content = "image"
  /\ ctl.response = "InvalidFileTypeError"
  /\ storageBreaker.calls > 0
  /\ breaker = ClosedBreaker

\* C26 (two breakers): the outcome of a storage call never changes the
\* classifier breaker, and the outcome of a classifier call, or its timeout,
\* never changes the storage breaker.
C26_IndependentBreakers ==
  [][/\ ctl.pending > 0 =>
          \A failed \in BOOLEAN : StorageResponds(failed) => breaker' = breaker
     /\ req["r1"].pc = "awaiting" =>
          /\ \A response \in ClassifierResponses :
               ClassifierResponds("r1", response) => storageBreaker' = storageBreaker
          /\ BreakerTimeout("r1") => storageBreaker' = storageBreaker]_vars

\* The storage breaker is open after storage failures while the classifier
\* breaker is closed with only successes in its window, and the other way
\* round is reachable as well.
C26_Witness ==
  /\ storageBreaker.status = "open"
  /\ breaker.status = "closed" /\ breaker.calls > 0 /\ breaker.failures = 0

\* C28 (rejected media is never stored): in moderateImage and moderateVideo
\* uploadFile is called only for a request whose verdict is accepted, and a
\* request whose verdict is rejected is answered rejected, without upload.
C28_NoUploadUnlessAccepted ==
  ctl.method \in {"moderateImage", "moderateVideo"} =>
    /\ ctl.uploads > 0 => ctl.verdict = "accepted"
    /\ (ctl.pc = "responded" /\ ctl.verdict = "rejected")
         => ctl.uploads = 0 /\ ctl.response = "rejected"

\* moderateImage answered rejected on the fail-closed fallback, the classifier
\* never invoked, and made no upload.
C28_Witness ==
  /\ ctl.method = "moderateImage" /\ ctl.pc = "responded"
  /\ ctl.verdict = "rejected" /\ ctl.calls = 0
  /\ ctl.response = "rejected" /\ ctl.uploads = 0

\* A value of the configuration is missing or empty.
SomeValueMissing(a) == \E path \in ConfigPaths : Falsy(a.config[path])

C31_OriginalOrProcessed ==
  (ctl.method = "moderateImageFromR2" /\ ctl.verdict = "accepted") =>
    /\ ctl.deleteCalls > 0 => ctl.stored = 2
    /\ ctl.original \/ ctl.stored = 2

\* One upload of the accepted image succeeded and the other failed: the
\* handler threw, no delete was called and the original is still there.
C31_Witness ==
  /\ ctl.method = "moderateImageFromR2" /\ ctl.verdict = "accepted"
  /\ ctl.pc = "responded" /\ ctl.response = "Error"
  /\ ctl.uploads = 2 /\ ctl.stored = 1 /\ ctl.pending = 0
  /\ ctl.deleteCalls = 0 /\ ctl.original

\* C32 (a rejected original is deleted): in moderateImageFromR2 and
\* moderateVideoFromR2 every rejected verdict, the fail-closed one included,
\* has deleteFile(r2Key) called once from the moment the handler holds the
\* verdict, hence before the rejected response is sent.
C32_RejectedDeletesOriginal ==
  FromR2(ctl.method) =>
    /\ ctl.verdict = "rejected" => ctl.deleteCalls = 1
    /\ ctl.response = "rejected" => ctl.verdict = "rejected" /\ ctl.deleteCalls = 1

\* moderateVideoFromR2 answered rejected on the fail-closed verdict, the
\* classifier never invoked, and the delete it called removed the original.
C32_Witness ==
  /\ ctl.method = "moderateVideoFromR2" /\ ctl.pc = "responded"
  /\ ctl.response = "rejected" /\ ctl.calls = 0
  /\ ctl.deleteCalls = 1 /\ ~ctl.original

\* C33 (accepted means stored): moderateImage answers accepted only when both
\* uploads have succeeded; when an upload fails or is timed out, or the
\* storage breaker refuses it, the handler throws and the request is not
\* answered accepted.
C33_AcceptedAfterBothUploads ==
  ctl.method = "moderateImage" =>
    /\ ctl.response = "accepted"
         => ctl.stored = 2 /\ ctl.uploads = 2 /\ ctl.pending = 0
    /\ (ctl.pc = "responded" /\ ctl.verdict = "accepted")
         => \/ ctl.response = "accepted"
            \/ ctl.response = "Error" /\ ctl.stored < 2

\* moderateImage answered accepted with its two uploads stored.
C33_Witness ==
  /\ ctl.method = "moderateImage" /\ ctl.pc = "responded"
  /\ ctl.response = "accepted"
  /\ ctl.stored = 2 /\ storageBreaker.calls >= 2

\* C34 (the temporary video is cleaned up): in moderateVideo and
\* moderateVideoFromR2, once saveTempFile has succeeded deleteTempFile is
\* called exactly once on every exit and never before; it is not called when
\* no temporary file was saved; and a failing unlink is never the request's
\* error.
C34_TempDeletedOnce ==
  ~ForImage(ctl.method) =>
    /\ ctl.temp = "none" => ctl.tempDeletes = 0
    /\ ctl.temp = "saved" => ctl.pc # "responded" /\ ctl.tempDeletes = 0
    /\ (ctl.pc = "responded" /\ ctl.temp # "none")
         => ctl.tempDeletes = 1 /\ ctl.temp \in {"deleted", "left"}
    /\ (ctl.pc = "responded" /\ ctl.temp = "left")
         => (ctl.response = "Error" <=> ctl.stored < ctl.uploads)

\* moderateVideoFromR2 threw on a failed thumbnail upload and the temporary
\* file was deleted once.
C34_Witness ==
  /\ ctl.method = "moderateVideoFromR2" /\ ctl.pc = "responded"
  /\ ctl.response = "Error" /\ ctl.verdict = "accepted"
  /\ ctl.uploads >= 1 /\ ctl.stored < ctl.uploads
  /\ ctl.temp = "deleted" /\ ctl.tempDeletes = 1

\* C35 (deleteFile swallows its errors): once deleteFile has been called the
\* handler never throws, whether the delete succeeds, fails, is timed out or
\* is refused by the open storage breaker; it answers with its verdict, so a
\* rejected request is answered rejected also when the object is still in
\* storage.
C35_DeleteNeverThrows ==
  /\ ctl.pc = "deleting" => ctl.deleteCalls = 1 /\ ctl.pending = 1
  /\ (ctl.pc = "responded" /\ ctl.deleteCalls > 0)
       => ctl.response = ctl.verdict /\ ctl.response \in {"accepted", "rejected"}
  /\ (ctl.pc = "responded" /\ FromR2(ctl.method) /\ ctl.verdict = "rejected")
       => ctl.response = "rejected"

\* A rejected request from R2 was answered rejected although its one delete
\* was refused by the storage breaker, which another request's failures had
\* opened: no storage call of its own has failed and the object is still there.
C35_Witness ==
  /\ FromR2(ctl.method) /\ ctl.pc = "responded"
  /\ ctl.response = "rejected"
  /\ ctl.deleteCalls = 1 /\ ctl.original
  /\ storageBreaker.status = "open" /\ storageBreaker.failures = storageBreaker.calls

\* The timestamp string denotes a position of a video of that duration.
InsideVideo(str, duration) ==
  LET x == StringToNumber(str)
  IN x.num >= 0 /\ x.num <= duration * x.den

\* C37 (timestamps inside the video): _calculateTimestamps(duration, count)
\* with count >= 1 and a positive duration returns exactly count timestamps,
\* each of them within [0, duration].
C37_TimestampsInsideVideo ==
  (stamps.called /\ stamps.count >= 1) =>
    /\ Len(stamps.timestamps) = stamps.count
    /\ \A i \in 1..Len(stamps.timestamps) : InsideVideo(stamps.timestamps[i], stamps.duration)

====
